---- MODULE Spec2Model ----
(***************************************************************************)
(* Request orchestration engine of the MCP scraping server.                *)
(*                                                                         *)
(*   Spec      the tool registry, the fallback walk                        *)
(*             (MCPToolsFramework.execute_tool / execute_with_fallback),   *)
(*             the execution-history ledger, the fallback events of the    *)
(*             logger and AgnoOrchestrator.process_request around them.    *)
(*   SpecVal   BaseTool.validate_result as a pure function over every      *)
(*             combination of status, confidence, payload and threshold.   *)
(*   SpecRate  RateLimiter.is_allowed over a non-decreasing clock.         *)
(*   SpecGate  ProductionOrchestrator.process_request: concurrent requests *)
(*             through the rate limiter, the size validation, the          *)
(*             semaphore, the fallback walk and the ledger compaction.     *)
(*   SpecCache CacheManager (Redis) and MemoryCacheManager: cache_result,  *)
(*             get_cached_result and invalidate_cache over a clock and a   *)
(*             Redis server that can become unreachable.                   *)
(*   SpecFront the search_web handler of the front ends (call_tool,        *)
(*             http_api.search_web) around the production orchestrator and *)
(*             the cache manager selected at start-up, one request at a    *)
(*             time.                                                       *)
(*   SpecMem   MemoryCacheManager on its own with more keys than its       *)
(*             capacity: expiry on read and eviction on insertion.         *)
(*   SpecReg   the ToolRegistry on its own: registrations (also under a    *)
(*             name already registered), removals and listings.            *)
(*   SpecClean the production orchestrator with requests of one client     *)
(*             under a clock that advances by the compaction interval.     *)
(*   SpecConf  _calculate_confidence of TavilyTool and of JinaTool as pure *)
(*             functions over result lists with and without an answer.     *)
(*   SpecWait  the fallback walk of Spec under a clock that advances while *)
(*             tool.execute is awaited.                                    *)
(*                                                                         *)
(* Requests of Spec run one after the other: process_request has a single  *)
(* suspension point, the await of tool.execute, and the model stops there  *)
(* (pc = "await") between the two halves of execute_tool.                  *)
(***************************************************************************)
EXTENDS Integers, Sequences, FiniteSets, TLC

(***************************************************************************)
(* Bounds of the model.                                                    *)
(***************************************************************************)
MaxTools == 2
\* number of tools registered at start-up (0..MaxTools)

MaxCalls == 2
\* number of process_request calls made on one orchestrator

MaxLedger == 4
\* a request starts only while the ledger has room for its whole walk

MaxConf == 2
\* confidence scores are the grid 0..MaxConf (0.0, 0.5, 1.0, ...)

MaxRateCalls == 4
\* number of is_allowed calls

MaxTicks == 3
\* number of clock advances

MaxRequests == 3
\* requests one ProductionOrchestrator receives

MaxSearches == 2
\* calls of the search_web handler

MaxCacheOps == 3
\* calls of the cache managers

MaxCacheTicks == 2
\* clock advances between the calls of the cache managers

MaxMemOps == 4
\* calls of the in-memory cache manager when it is run on its own

MaxResults == 6
\* entries of the result list a provider answers with (0..MaxResults)

(***************************************************************************)
(* Program constants.                                                      *)
(***************************************************************************)
min_confidence == 1

\* AgnoOrchestrator(timeout=30), handed to both tools, in seconds
timeout == 30
\* AgnoOrchestrator.min_confidence, default 0.5, on the confidence grid

LogTail == 5
\* execution_log=execution_history[-5:]

Priorities == {0, 1}
\* BaseTool.priority: lower number = tried first

(***************************************************************************)
(* ToolStatus and ToolResult.                                              *)
(***************************************************************************)
SUCCESS == "success"
FAILURE == "failure"
TIMEOUT == "timeout"
NOT_FOUND == "not_found"

ToolStatus == {SUCCESS, FAILURE, TIMEOUT, NOT_FOUND}

NoData == <<>>
\* ToolResult.data is None or an empty dict; a payload is <<provider>>

NoError == "no_error"
\* ToolResult.error is None

NoSource == <<>>
\* ToolResult.metadata is None; metadata["source"] is <<provider>>

Confidences == 0..MaxConf

ToolResult(status, data, error, confidence, source) ==
    [status |-> status, data |-> data, error |-> error,
     confidence |-> confidence, source |-> source]

is_success(result) == result.status = SUCCESS

(***************************************************************************)
(* BaseTool.validate_result: three early returns, then True.               *)
(***************************************************************************)
validate_result_wrong_threshold(result, min_conf) ==
    IF ~is_success(result) THEN FALSE
    ELSE IF result.confidence <= min_conf THEN FALSE
    ELSE IF result.data = NoData THEN FALSE
    ELSE TRUE

validate_result(result, min_conf) ==
    IF ~is_success(result) THEN FALSE
    ELSE IF result.confidence < min_conf THEN FALSE
    ELSE IF result.data = NoData THEN FALSE
    ELSE TRUE

(***************************************************************************)
(* State.                                                                  *)
(***************************************************************************)
VARIABLES
    tools,              \* ToolRegistry.tools, in registration (dict) order
    execution_history,  \* MCPToolsFramework.execution_history
    fallback_log,       \* Fallback_Triggered events written by log_fallback
    request_count,      \* AgnoOrchestrator.request_count
    success_count,      \* AgnoOrchestrator.success_count
    fallback_count,     \* AgnoOrchestrator.fallback_count
    pc,                 \* "idle", "await" (inside tool.execute), "cancelled"
    query,              \* the query of the request being processed
    available_tools,    \* local of execute_with_fallback: the sorted list
    i,                  \* local of execute_with_fallback: the loop index
    last_result,        \* local of execute_with_fallback
    returned,           \* the ToolResult execute_with_fallback returned
    response,           \* the AgnoResponse process_request returned
    invoked,            \* history variable: <<tool, outcome>> of each
                        \* tool.execute awaited by the current call
    hist_start,         \* history variable: Len(execution_history) and
    log_start,          \* Len(fallback_log) when the current call began
    start_time,         \* execute_tool: time.time() when the invocation began
    val_in,             \* SpecVal: the arguments of validate_result
    val_out,            \* SpecVal: [done, accepted], its return value
    conf_in,            \* SpecConf: the results dict of _calculate_confidence
    conf_out,           \* SpecConf: [done, tool, confidence], its return value
    now,                \* SpecRate: the clock, time.time() in seconds
    config,             \* RateLimiter.config (RateLimitConfig)
    requests_per_minute,\* RateLimiter.requests_per_minute[client]
    requests_per_hour,  \* RateLimiter.requests_per_hour[client]
    burst_requests,     \* RateLimiter.burst_requests[client]
    rl_result,          \* what the last is_allowed call returned, and to whom
    admitted,           \* history variable: the times at which is_allowed
                        \* returned True, per client
    rl_calls,           \* history variable: number of is_allowed calls
    ticks,              \* history variable: number of clock advances
    max_concurrent_requests, \* RateLimitConfig.max_concurrent_requests
    memory_config,      \* MemoryManager.config (MemoryConfig)
    semaphore,          \* ProductionOrchestrator.semaphore: its free slots
    active_requests,    \* ProductionOrchestrator.active_requests (its keys)
    request_counter,    \* ProductionOrchestrator.request_counter
    last_cleanup,       \* MemoryManager.last_cleanup
    g_pc,               \* per request: "new", "wait" (at the semaphore),
                        \* "woken" (release has handed it the slot, it
                        \* has not run yet), "await" (inside
                        \* tool.execute), "done"
    g_client,           \* per request: client_id
    g_i,                \* per request: loop index of execute_with_fallback
    g_response,         \* per request: the kind of AgnoResponse returned
    g_check,            \* history variable, per request: what is_allowed
                        \* and validate_request_size answered
    g_invocations,      \* history variable, per request: tool.execute calls
    cache_backend,      \* class of cache_manager: "redis" (CacheManager)
                        \* or "memory" (MemoryCacheManager)
    redis_up,           \* whether the Redis server can be reached
    redis_client,       \* CacheManager.redis_client is not None
    redis_store,        \* the keys of the Redis server with value and expiry
    max_size,           \* MemoryCacheManager.max_size
    cache,              \* MemoryCacheManager.cache
    access_times,       \* MemoryCacheManager.access_times
    c_ret,              \* the last call of a cache manager and its return
    c_ops,              \* history variable: number of cache manager calls
    f_pc,               \* search_web handler: "idle", "process" (before
                        \* process_request), "engine" (inside it)
    f_count,            \* number of search_web requests received
    f_query,            \* per front-end request: query
    f_use_cache,        \* per front-end request: use_cache
    f_lookup,           \* per front-end request: "skipped", "hit", "miss"
    f_gate,             \* per front-end request: the request of the
                        \* production orchestrator it became (0: none)
    f_answer            \* per front-end request: "cached", "fresh",
                        \* "failed", "error", "cancelled"

engine_vars == <<tools, execution_history, fallback_log, request_count,
                 success_count, fallback_count, pc, query, available_tools,
                 i, last_result, returned, response, invoked, hist_start,
                 log_start, start_time>>

val_vars == <<val_in, val_out, conf_in, conf_out>>

rate_vars == <<now, config, requests_per_minute, requests_per_hour,
               burst_requests, rl_result, admitted, rl_calls, ticks>>

gate_vars == <<max_concurrent_requests, memory_config, semaphore,
               active_requests, request_counter, last_cleanup, g_pc,
               g_client, g_i, g_response, g_check, g_invocations>>

cache_vars == <<cache_backend, redis_up, redis_client, redis_store, max_size,
                cache, access_times, c_ret, c_ops>>

front_vars == <<f_pc, f_count, f_query, f_use_cache, f_lookup, f_gate,
                f_answer>>

prod_vars == <<gate_vars, cache_vars, front_vars>>

\* "no ToolResult yet" and "no AgnoResponse yet"
NoResult == ToolResult("none", NoData, NoError, 0, NoSource)

NoResponse ==
    [success |-> FALSE, data |-> NoData, error |-> NoError, confidence |-> 0,
     source |-> NoSource, execution_log |-> <<>>, feedback |-> "none"]

(***************************************************************************)
(* ToolRegistry.                                                           *)
(***************************************************************************)
Tool(name, priority, available) ==
    [name |-> name, priority |-> priority, available |-> available]

\* Every registry register_tool can build at start-up: the k-th registered
\* tool has the k-th name (names are the keys of the dict, hence distinct).
Registries ==
    UNION { { [k \in 1..n |-> Tool(k, prio[k], avail[k])] :
                prio \in [1..n -> Priorities], avail \in [1..n -> BOOLEAN] } :
            n \in 0..MaxTools }

RECURSIVE SelectAvailable(_)
SelectAvailable(ts) ==
    IF ts = <<>> THEN <<>>
    ELSE IF Head(ts).available
         THEN <<Head(ts)>> \o SelectAvailable(Tail(ts))
         ELSE SelectAvailable(Tail(ts))

\* insertion point of sorted(): after every element whose key is <= the key
InsertByPriority(sorted, t) ==
    LET before == SelectSeq(sorted, LAMBDA u : u.priority <= t.priority)
        after  == SelectSeq(sorted, LAMBDA u : u.priority > t.priority)
    IN  before \o <<t>> \o after

RECURSIVE SortByPriority(_)
SortByPriority(ts) ==
    IF ts = <<>> THEN <<>>
    ELSE InsertByPriority(SortByPriority(SubSeq(ts, 1, Len(ts) - 1)), ts[Len(ts)])

get_available_tools_unsorted(registry) == SelectAvailable(registry)

get_available_tools(registry) == SortByPriority(SelectAvailable(registry))

\* the names register_tool is called with
ToolNames == 1..MaxTools

\* position of a key in the dict, 0 when it is not a key
KeyPosition(registry, name) ==
    IF \E k \in DOMAIN registry : registry[k].name = name
    THEN CHOOSE k \in DOMAIN registry : registry[k].name = name
    ELSE 0

register_tool_appends(registry, tool) == Append(registry, tool)

\* self.tools[tool.name] = tool: a key already in the dict keeps its place
register_tool(registry, tool) ==
    IF KeyPosition(registry, tool.name) = 0
    THEN Append(registry, tool)
    ELSE [registry EXCEPT ![KeyPosition(registry, tool.name)] = tool]

\* del self.tools[tool_name] when the name is a key
unregister_tool(registry, name) ==
    SelectSeq(registry, LAMBDA t : t.name # name)

(***************************************************************************)
(* What one await of tool.execute can produce.                             *)
(*   result: a ToolResult as the tools build them: Success carries the     *)
(*           provider's payload (a non-empty dict), a confidence and no    *)
(*           error; Failure and Timeout carry an error and no payload      *)
(*           (tavily_tool.py 89-147, jina_tool.py 60-105);                 *)
(*   raise:  execute raises an Exception (caught by execute_tool);         *)
(*   cancel: the task is cancelled at the await (CancelledError is a       *)
(*           BaseException: "except Exception" does not catch it).         *)
(***************************************************************************)
ProviderError == "provider error"
TimeoutError == "request timeout"
ExecFailedError == "Tool execution failed"
NoToolsError == "No available tools found"
AllFailedError == "All tools failed"
LowConfidenceReason == "Low confidence or invalid result"

ExecuteResults(name) ==
    { ToolResult(SUCCESS, <<name>>, NoError, c, <<name>>) : c \in Confidences }
    \cup { ToolResult(FAILURE, NoData, ProviderError, 0, NoSource),
           ToolResult(TIMEOUT, NoData, TimeoutError, 0, NoSource) }

HistoryEntry(tool, q, status) == [tool |-> tool, query |-> q, status |-> status]

FallbackEvent_swapped(from, to, reason) == [from |-> to, to |-> from, reason |-> reason]

FallbackEvent(from, to, reason) == [from |-> from, to |-> to, reason |-> reason]

(***************************************************************************)
(* AgnoOrchestrator: _generate_feedback and the response of                *)
(* process_request, computed from the result of execute_with_fallback and  *)
(* the ledger as it is when the walk has returned.                         *)
(***************************************************************************)
FallbackUsed(result, history) == is_success(result) /\ Len(history) > 1

_generate_feedback(result, history) ==
    IF is_success(result)
    THEN IF Len(history) > 1 THEN "ok_fallback" ELSE "ok"
    ELSE IF result.status = TIMEOUT THEN "warn_timeout"
    ELSE IF result.status = NOT_FOUND THEN "warn_no_tools"
    ELSE "error"

LastN(s, n) == IF Len(s) <= n THEN s ELSE SubSeq(s, Len(s) - n + 1, Len(s))

AgnoResponse(result, history) ==
    IF is_success(result)
    THEN [success |-> TRUE, data |-> result.data, error |-> NoError,
          confidence |-> result.confidence, source |-> result.source,
          execution_log |-> LastN(history, LogTail),
          feedback |-> _generate_feedback(result, history)]
    ELSE [success |-> FALSE, data |-> NoData,
          error |-> IF result.error # NoError THEN result.error
                    ELSE "All scraping tools failed",
          confidence |-> 0, source |-> NoSource,
          execution_log |-> LastN(history, LogTail),
          feedback |-> _generate_feedback(result, history)]

\* process_request from the return of execute_with_fallback to its own return
Respond(result, history) ==
    /\ returned' = result
    /\ response' = AgnoResponse(result, history)
    /\ success_count' = IF is_success(result) THEN success_count + 1 ELSE success_count
    /\ fallback_count' = IF FallbackUsed(result, history)
                         THEN fallback_count + 1 ELSE fallback_count
    /\ pc' = "idle"

(***************************************************************************)
(* MCPToolsFramework.execute_tool, second half (after the await), and the  *)
(* body of the loop of execute_with_fallback that follows it.              *)
(***************************************************************************)
\* the ToolResult built by the "except Exception" branch of execute_tool
ExceptionResult_as_timeout == ToolResult(TIMEOUT, NoData, ExecFailedError, 0, NoSource)

ExceptionResult == ToolResult(FAILURE, NoData, ExecFailedError, 0, NoSource)

\* the ToolResult returned when get_available_tools() is empty
NoToolsResult_as_failure == ToolResult(FAILURE, NoData, NoToolsError, 0, NoSource)

NoToolsResult == ToolResult(NOT_FOUND, NoData, NoToolsError, 0, NoSource)

\* self.execution_history.append({...}) on the path where execute returned
RecordExecution(history, tool_name, q, result) ==
    Append(history, HistoryEntry(tool_name, q, result.status))

\* reason = result.error or "Low confidence or invalid result"
FallbackReason_error_only(result) == result.error

FallbackReason(result) ==
    IF result.error # NoError THEN result.error ELSE LowConfidenceReason

\* enumerate(available_tools): the index of the next iteration
NextIndex_retry(idx) == idx

NextIndex(idx) == idx + 1

\* return last_result or ToolResult(status=FAILURE, error="All tools failed")
ExhaustedResult_generic(last) == ToolResult(FAILURE, NoData, AllFailedError, 0, NoSource)

ExhaustedResult(last) ==
    IF last # NoResult THEN last
    ELSE ToolResult(FAILURE, NoData, AllFailedError, 0, NoSource)

\* lines 288-309 for the tool at index i, given the ToolResult execute_tool
\* returned and the ledger as execute_tool left it
LoopBody(result, history) ==
    LET tool == available_tools[i] IN
    /\ execution_history' = history
    /\ IF validate_result(result, min_confidence)
       THEN /\ Respond(result, history)
            /\ UNCHANGED <<fallback_log, i, last_result>>
       ELSE IF i < Len(available_tools)
       THEN /\ fallback_log' = Append(fallback_log,
                   FallbackEvent(tool.name, available_tools[i + 1].name,
                                 FallbackReason(result)))
            /\ last_result' = result
            /\ i' = NextIndex(i)
            /\ pc' = "await"
            /\ UNCHANGED <<returned, response, success_count, fallback_count>>
       ELSE /\ last_result' = result
            /\ Respond(ExhaustedResult(result), history)
            /\ UNCHANGED <<fallback_log, i>>

(***************************************************************************)
(* RateLimiter.                                                            *)
(***************************************************************************)
BurstWindow == 10
MinuteWindow == 60
HourWindow == 3600

Clients == {"c1", "c2"}

\* the limits a RateLimitConfig is built with (all positive)
Limits == {1, 2}

\* the amounts by which the clock advances between two calls: they add up
\* to exactly 10 s (5+5), 60 s (5+55) and 3600 s (5+55+3540), and to just
\* less (5, 55, 3595)
Jumps == {5, 55, 3540}

RateLimitConfig(per_minute, per_hour, burst) ==
    [max_requests_per_minute |-> per_minute, max_requests_per_hour |-> per_hour,
     burst_limit |-> burst]

NoRateResult == [client |-> "none", allowed |-> FALSE, reason |-> "none", at |-> 0]

\* [req_time for req_time in window if now - req_time < duration]
Younger_inclusive(window, t, duration) ==
    SelectSeq(window, LAMBDA req_time : t - req_time <= duration)

Younger_keeps_all(window, t, duration) == window

Younger(window, t, duration) ==
    SelectSeq(window, LAMBDA req_time : t - req_time < duration)

\* the first violated limit, checked in the order of is_allowed, on the
\* windows as _cleanup_old_requests left them
Verdict_minute_first(cfg, burst, minute, hour, t) ==
    IF Len(minute) >= cfg.max_requests_per_minute THEN "minute"
    ELSE IF Len(Younger(burst, t, BurstWindow)) >= cfg.burst_limit THEN "burst"
    ELSE IF Len(hour) >= cfg.max_requests_per_hour THEN "hour"
    ELSE "allowed"

Verdict_exceeds(cfg, burst, minute, hour, t) ==
    IF Len(Younger(burst, t, BurstWindow)) > cfg.burst_limit THEN "burst"
    ELSE IF Len(minute) > cfg.max_requests_per_minute THEN "minute"
    ELSE IF Len(hour) > cfg.max_requests_per_hour THEN "hour"
    ELSE "allowed"

Verdict(cfg, burst, minute, hour, t) ==
    IF Len(Younger(burst, t, BurstWindow)) >= cfg.burst_limit THEN "burst"
    ELSE IF Len(minute) >= cfg.max_requests_per_minute THEN "minute"
    ELSE IF Len(hour) >= cfg.max_requests_per_hour THEN "hour"
    ELSE "allowed"

\* "Record the request": window.append(now), reached only when no check
\* has returned (False, reason)
Recorded_always(window, t, reason) == Append(window, t)

Recorded(window, t, reason) ==
    IF reason = "allowed" THEN Append(window, t) ELSE window

\* RateLimiter.is_allowed(client_id): no await inside, so one step
is_allowed(c) ==
    LET minute == Younger(requests_per_minute[c], now, MinuteWindow)
        hour   == Younger(requests_per_hour[c], now, HourWindow)
        burst  == Younger(burst_requests[c], now, BurstWindow)
        reason == Verdict(config, burst, minute, hour, now)
    IN  /\ rl_result' = [client |-> c, allowed |-> reason = "allowed",
                         reason |-> reason, at |-> now]
        /\ requests_per_minute' = [requests_per_minute EXCEPT ![c] = Recorded(minute, now, reason)]
        /\ requests_per_hour' = [requests_per_hour EXCEPT ![c] = Recorded(hour, now, reason)]
        /\ burst_requests' = [burst_requests EXCEPT ![c] = Recorded(burst, now, reason)]
        /\ admitted' = IF reason = "allowed"
                       THEN [admitted EXCEPT ![c] = Append(@, now)]
                       ELSE admitted

(***************************************************************************)
(* ProductionOrchestrator: MemoryManager and the admission checks.         *)
(***************************************************************************)
max_request_size_mb == 10
BytesPerMb == 1048576
cleanup_interval_seconds == 300

Requests == 1..MaxRequests

\* RateLimitConfig.max_concurrent_requests and MemoryConfig.max_execution_history
Capacities == {1, 2}
HistoryLimits == {1, 2}

\* request_data = {"user_input": ..., **kwargs}: whether json.dumps accepts
\* it and the length of its UTF-8 encoding
RequestData ==
    { [serializable |-> TRUE, bytes |-> b] :
        b \in {2, max_request_size_mb * BytesPerMb,
               max_request_size_mb * BytesPerMb + 1} }
    \cup { [serializable |-> FALSE, bytes |-> 0] }

validate_request_size(data) ==
    IF data.serializable
    THEN ~(data.bytes > max_request_size_mb * BytesPerMb)
    ELSE FALSE

\* history_list[-max_execution_history:] unless the list is within the limit
cleanup_history_keeps_oldest(history, max) ==
    IF Len(history) <= max THEN history
    ELSE SubSeq(history, 1, max)

cleanup_history(history, max) ==
    IF Len(history) <= max THEN history
    ELSE SubSeq(history, Len(history) - max + 1, Len(history))

should_cleanup(t, last) == t - last > cleanup_interval_seconds

\* the two early returns of process_request, in their order
AdmissionVerdict_size_unchecked(allowed, valid) ==
    IF ~allowed THEN "rate_limited" ELSE "admit"

AdmissionVerdict(allowed, valid) ==
    IF ~allowed THEN "rate_limited"
    ELSE IF ~valid THEN "too_large"
    ELSE "admit"

\* Semaphore.acquire returns at once when a slot is free and waits otherwise
CanAcquire_always(value) == TRUE

CanAcquire(value) == value > 0

\* "async with self.semaphore": __aexit__ releases however the block is left
Released_unless_cancelled(kind) == kind # "cancelled"

Released(kind) == TRUE

\* the registry AgnoOrchestrator builds when it is given no Tavily API key:
\* Tavily (priority 0) is unavailable, Jina (priority 1) is always available
ProductionRegistry == <<Tool(1, 0, FALSE), Tool(2, 1, TRUE)>>

\* the limits of the three windows, equal: the requests of SpecGate arrive
\* within one burst window
GateConfigs == { RateLimitConfig(l, l, l) : l \in Limits }

NoCheck == [allowed |-> FALSE, valid |-> FALSE]

(***************************************************************************)
(* CacheManager (Redis) and MemoryCacheManager.                            *)
(***************************************************************************)
default_ttl == 3600

\* queries, formatted outputs, ttl arguments (0: no ttl given), max_size
CacheQueries == {"python", "weather"}

\* the queries sent to the in-memory backend on its own: one more than the
\* largest max_size
MemQueries == CacheQueries \cup {"news"}
FormattedOutputs == {"text1", "text2"}
TTLs == {0, 60}
MemSizes == {1, 2}

\* CacheConfig.cache_prefix, "agno:"
cache_prefix == <<"a", "g", "n", "o", ":">>

\* hashlib.md5(json.dumps({"query": q, "params": sorted(kwargs.items())},
\* sort_keys=True)).hexdigest() for the parameters the front end sends
\* (max_results=5, format="structured")
_generate_cache_key(q) ==
    IF q = "python"
    THEN <<"a", "8", "0", "2", "c", "9", "e", "9", "7", "9", "c", "6", "5",
           "8", "1", "1", "b", "a", "5", "8", "4", "c", "a", "c", "1", "a",
           "a", "e", "4", "d", "9", "c">>
    ELSE IF q = "news"
    THEN <<"f", "f", "4", "3", "d", "e", "c", "8", "8", "f", "8", "3", "d",
           "c", "0", "f", "5", "c", "7", "d", "8", "9", "8", "7", "5", "2",
           "9", "7", "4", "5", "0", "5">>
    ELSE <<"2", "c", "7", "b", "7", "5", "3", "2", "7", "6", "d", "1", "d",
           "f", "c", "c", "e", "b", "2", "c", "9", "7", "3", "3", "3", "f",
           "c", "9", "f", "2", "a", "6">>

\* CacheManager._generate_cache_key: the prefix, then the digest
RedisKey(q) == cache_prefix \o _generate_cache_key(q)

\* query_pattern arguments of invalidate_cache: none, a query, a piece of
\* a digest
NoPattern == <<>>
Patterns == { NoPattern, <<"p", "y", "t", "h", "o", "n">>, <<"a", "8">> }

\* clock advances of SpecCache: a ttl argument, the rest of default_ttl
CacheJumps == {60, 3540}

Contains(str, sub) ==
    \E k \in 0..(Len(str) - Len(sub)) : SubSeq(str, k + 1, k + Len(sub)) = sub

\* redis KEYS f"{cache_prefix}*{query_pattern}*", or f"{cache_prefix}*"
KeysMatching(store, pattern) ==
    { k \in DOMAIN store :
        /\ Len(k) >= Len(cache_prefix)
        /\ SubSeq(k, 1, Len(cache_prefix)) = cache_prefix
        /\ Contains(SubSeq(k, Len(cache_prefix) + 1, Len(k)), pattern) }

EmptyStore == [k \in {} |-> 0]

Put(store, key, value) ==
    [k \in DOMAIN store \cup {key} |-> IF k = key THEN value ELSE store[k]]

Drop(store, keys) == [k \in DOMAIN store \ keys |-> store[k]]

\* ttl = ttl or default_ttl
EffectiveTtl(ttl) == IF ttl = 0 THEN default_ttl ELSE ttl

\* the payload the front ends store: {"result": formatted_output}
Payload(text) == [result |-> text]

\* what a cache manager call returned: got is <<>> for None
NoRet ==
    [op |-> "none", query |-> "none", pattern |-> NoPattern, payload |-> <<>>,
     ttl |-> 0, got |-> <<>>, ok |-> FALSE, deleted |-> 0, raised |-> FALSE,
     status |-> "none", at |-> 0]

\* the keys of the Redis server that have not expired at time t
RedisLive(store, t) ==
    Drop(store, { k \in DOMAIN store : store[k].expires_at <= t })

\* _get_redis_client: the client, created when the server answers the ping
RedisClient_never_retries == redis_client

RedisClient == redis_client \/ redis_up

\* json.loads of the stored string: the envelope built by cache_result
RedisEnvelope(q, payload, t) ==
    [result |-> payload, cached_at |-> t, query |-> q, params |-> "defaults"]

\* CacheManager.get_cached_result
RedisGet(q) ==
    LET live == RedisLive(redis_store, now)
        key  == RedisKey(q)
    IN  /\ redis_client' = RedisClient
        /\ IF RedisClient /\ redis_up
           THEN /\ redis_store' = live
                /\ c_ret' = [NoRet EXCEPT !.op = "get", !.query = q, !.at = now,
                               !.got = IF key \in DOMAIN live
                                       THEN <<live[key].value>> ELSE <<>>]
           ELSE /\ c_ret' = [NoRet EXCEPT !.op = "get", !.query = q, !.at = now]
                /\ UNCHANGED redis_store
        /\ UNCHANGED <<cache, access_times>>

\* CacheManager.cache_result
RedisSet(q, payload, ttl) ==
    LET live == RedisLive(redis_store, now)
        key  == RedisKey(q)
        ret  == [NoRet EXCEPT !.op = "set", !.query = q, !.at = now,
                              !.payload = <<payload>>, !.ttl = ttl]
    IN  /\ redis_client' = RedisClient
        /\ IF RedisClient /\ redis_up
           THEN /\ redis_store' = Put(live, key,
                      [value |-> RedisEnvelope(q, payload, now),
                       expires_at |-> now + EffectiveTtl(ttl)])
                /\ c_ret' = [ret EXCEPT !.ok = TRUE]
           ELSE /\ c_ret' = ret
                /\ UNCHANGED redis_store
        /\ UNCHANGED <<cache, access_times>>

\* CacheManager.invalidate_cache
RedisInvalidate(pattern) ==
    LET live == RedisLive(redis_store, now)
        keys == KeysMatching(live, pattern)
        ret  == [NoRet EXCEPT !.op = "invalidate", !.pattern = pattern,
                              !.at = now]
    IN  /\ redis_client' = RedisClient
        /\ IF RedisClient /\ redis_up
           THEN /\ redis_store' = Drop(live, keys)
                /\ c_ret' = [ret EXCEPT !.deleted = Cardinality(keys)]
           ELSE /\ c_ret' = ret
                /\ UNCHANGED redis_store
        /\ UNCHANGED <<cache, access_times>>

\* access_times[key] = t: a key of the dict keeps its place, a new key is
\* inserted last
Assign(times, key, t) ==
    IF \E k \in DOMAIN times : times[k].key = key
    THEN [k \in DOMAIN times |->
             IF times[k].key = key THEN [key |-> key, time |-> t] ELSE times[k]]
    ELSE Append(times, [key |-> key, time |-> t])

Pop(times, keys) == SelectSeq(times, LAMBDA e : e.key \notin keys)

InsertByTime_appends(sorted, e) == Append(sorted, e)

InsertByTime(sorted, e) ==
    LET before == SelectSeq(sorted, LAMBDA u : u.time <= e.time)
        after  == SelectSeq(sorted, LAMBDA u : u.time > e.time)
    IN  before \o <<e>> \o after

\* sorted(self.access_times.items(), key=lambda x: x[1])
RECURSIVE SortByTime(_)
SortByTime(times) ==
    IF times = <<>> THEN <<>>
    ELSE InsertByTime(SortByTime(SubSeq(times, 1, Len(times) - 1)),
                      times[Len(times)])

\* MemoryCacheManager._cleanup_old_entries: <<cache, access_times>> after it
_cleanup_old_entries(entries, times, max) ==
    IF Cardinality(DOMAIN entries) <= max THEN <<entries, times>>
    ELSE LET n == Cardinality(DOMAIN entries) - max
             sorted == SortByTime(times)
             victims == { sorted[k].key :
                            k \in 1..(IF n < Len(sorted) THEN n ELSE Len(sorted)) }
         IN  <<Drop(entries, victims), Pop(times, victims)>>

\* the expiry test of MemoryCacheManager.get_cached_result
Expired_never(entry, t) == FALSE

Expired(entry, t) == t - entry.cached_at > entry.ttl

\* MemoryCacheManager.get_cached_result
MemGet(q) ==
    LET key == _generate_cache_key(q)
        ret == [NoRet EXCEPT !.op = "get", !.query = q, !.at = now]
    IN  /\ IF key \in DOMAIN cache
           THEN IF Expired(cache[key], now)
                THEN /\ cache' = Drop(cache, {key})
                     /\ access_times' = Pop(access_times, {key})
                     /\ c_ret' = ret
                ELSE /\ access_times' = Assign(access_times, key, now)
                     /\ c_ret' = [ret EXCEPT !.got = <<cache[key].result>>]
                     /\ UNCHANGED cache
           ELSE /\ c_ret' = ret
                /\ UNCHANGED <<cache, access_times>>
        /\ UNCHANGED <<redis_client, redis_store>>

\* MemoryCacheManager.cache_result
MemSet(q, payload, ttl) ==
    LET key == _generate_cache_key(q)
        entries == Put(cache, key, [result |-> payload, cached_at |-> now,
                                    ttl |-> EffectiveTtl(ttl)])
        times == Assign(access_times, key, now)
        kept == _cleanup_old_entries(entries, times, max_size)
    IN  /\ cache' = kept[1]
        /\ access_times' = kept[2]
        /\ c_ret' = [NoRet EXCEPT !.op = "set", !.query = q, !.at = now,
                                  !.payload = <<payload>>, !.ttl = ttl,
                                  !.ok = TRUE]
        /\ UNCHANGED <<redis_client, redis_store>>

\* MemoryCacheManager has no invalidate_cache: the call raises AttributeError
MemInvalidate(pattern) ==
    /\ c_ret' = [NoRet EXCEPT !.op = "invalidate", !.pattern = pattern,
                              !.at = now, !.raised = TRUE]
    /\ UNCHANGED <<cache, access_times, redis_client, redis_store>>

\* CacheManager.get_cache_stats: "disabled" without a client, "error" when
\* info() or keys() raises, "active" otherwise
RedisStats ==
    /\ redis_client' = RedisClient
    /\ c_ret' = [NoRet EXCEPT !.op = "stats", !.at = now,
                              !.status = IF ~RedisClient THEN "disabled"
                                         ELSE IF ~redis_up THEN "error"
                                         ELSE "active"]
    /\ redis_store' = IF RedisClient /\ redis_up
                      THEN RedisLive(redis_store, now) ELSE redis_store
    /\ UNCHANGED <<cache, access_times>>

\* MemoryCacheManager.get_cache_stats
MemStats ==
    /\ c_ret' = [NoRet EXCEPT !.op = "stats", !.at = now, !.status = "active"]
    /\ UNCHANGED <<cache, access_times, redis_client, redis_store>>

get_cache_stats == IF cache_backend = "redis" THEN RedisStats ELSE MemStats

get_cached_result(q) ==
    IF cache_backend = "redis" THEN RedisGet(q) ELSE MemGet(q)

cache_result(q, payload, ttl) ==
    IF cache_backend = "redis" THEN RedisSet(q, payload, ttl)
    ELSE MemSet(q, payload, ttl)

invalidate_cache(pattern) ==
    IF cache_backend = "redis" THEN RedisInvalidate(pattern)
    ELSE MemInvalidate(pattern)

(***************************************************************************)
(* Actions of Spec.                                                        *)
(***************************************************************************)
\* process_request up to its first suspension: the counters, the call of
\* execute_with_fallback, get_available_tools, the NotFound return (and then
\* the rest of process_request) or the first half of execute_tool.
ProcessRequest ==
    /\ pc \in {"idle", "cancelled"}
    /\ request_count < MaxCalls
    /\ Len(execution_history) + Len(get_available_tools(tools)) <= MaxLedger
    /\ request_count' = request_count + 1
    /\ query' = request_count + 1
    /\ available_tools' = get_available_tools(tools)
    /\ hist_start' = Len(execution_history)
    /\ log_start' = Len(fallback_log)
    /\ invoked' = <<>>
    /\ last_result' = NoResult
    /\ IF get_available_tools(tools) = <<>>
       THEN /\ Respond(NoToolsResult, execution_history)
            /\ i' = 0
       ELSE /\ i' = 1
            /\ pc' = "await"
            /\ returned' = NoResult
            /\ response' = NoResponse
            /\ UNCHANGED <<success_count, fallback_count>>
    /\ start_time' = IF pc' = "await" THEN now ELSE start_time
    /\ UNCHANGED <<tools, execution_history, fallback_log, val_vars, rate_vars, prod_vars>>

\* tool.execute returns a ToolResult
ToolReturns ==
    /\ pc = "await"
    /\ \E result \in ExecuteResults(available_tools[i].name) :
         /\ invoked' = Append(invoked, [tool |-> available_tools[i].name,
                                        kind |-> "result", result |-> result])
         /\ LoopBody(result, RecordExecution(execution_history,
                                 available_tools[i].name, query, result))
    /\ start_time' = IF pc' = "await" THEN now ELSE start_time
    /\ UNCHANGED <<tools, request_count, query, available_tools, hist_start,
                   log_start, val_vars, rate_vars, prod_vars>>

\* tool.execute raises an Exception
ToolRaises ==
    /\ pc = "await"
    /\ invoked' = Append(invoked, [tool |-> available_tools[i].name,
                                   kind |-> "raise", result |-> ExceptionResult])
    /\ LoopBody(ExceptionResult, execution_history)
    /\ start_time' = IF pc' = "await" THEN now ELSE start_time
    /\ UNCHANGED <<tools, request_count, query, available_tools, hist_start,
                   log_start, val_vars, rate_vars, prod_vars>>

\* the request is cancelled while it awaits tool.execute: CancelledError
\* leaves execute_tool, execute_with_fallback and process_request
ToolCancelled ==
    /\ pc = "await"
    /\ invoked' = Append(invoked, [tool |-> available_tools[i].name,
                                   kind |-> "cancel", result |-> NoResult])
    /\ pc' = "cancelled"
    /\ UNCHANGED <<tools, execution_history, fallback_log, request_count,
                   success_count, fallback_count, query, available_tools, i,
                   last_result, returned, response, hist_start, log_start,
                   start_time, val_vars, rate_vars, prod_vars>>

vars == <<engine_vars, val_vars, rate_vars, prod_vars>>

EngineInit ==
    /\ execution_history = <<>>
    /\ fallback_log = <<>>
    /\ request_count = 0
    /\ success_count = 0
    /\ fallback_count = 0
    /\ pc = "idle"
    /\ query = 0
    /\ available_tools = <<>>
    /\ i = 0
    /\ last_result = NoResult
    /\ returned = NoResult
    /\ response = NoResponse
    /\ invoked = <<>>
    /\ hist_start = 0
    /\ log_start = 0
    /\ start_time = 0

ConfIdle ==
    /\ conf_in = [scores |-> <<>>, answer |-> FALSE]
    /\ conf_out = [done |-> FALSE, tool |-> "none", confidence |-> 0]

ValIdle ==
    /\ val_in = [result |-> NoResult, min_conf |-> 0]
    /\ val_out = [done |-> FALSE, accepted |-> FALSE]
    /\ ConfIdle

RateIdle ==
    /\ now = 0
    /\ config = RateLimitConfig(1, 1, 1)
    /\ requests_per_minute = [c \in Clients |-> <<>>]
    /\ requests_per_hour = [c \in Clients |-> <<>>]
    /\ burst_requests = [c \in Clients |-> <<>>]
    /\ rl_result = NoRateResult
    /\ admitted = [c \in Clients |-> <<>>]
    /\ rl_calls = 0
    /\ ticks = 0

GateIdle ==
    /\ max_concurrent_requests = 1
    /\ memory_config = [max_execution_history |-> 1]
    /\ semaphore = 1
    /\ active_requests = {}
    /\ request_counter = 0
    /\ last_cleanup = 0
    /\ g_pc = [r \in Requests |-> "new"]
    /\ g_client = [r \in Requests |-> "none"]
    /\ g_i = [r \in Requests |-> 0]
    /\ g_response = [r \in Requests |-> "none"]
    /\ g_check = [r \in Requests |-> NoCheck]
    /\ g_invocations = [r \in Requests |-> 0]

FrontIdle ==
    /\ f_pc = "idle"
    /\ f_count = 0
    /\ f_query = [f \in Requests |-> "none"]
    /\ f_use_cache = [f \in Requests |-> FALSE]
    /\ f_lookup = [f \in Requests |-> "none"]
    /\ f_gate = [f \in Requests |-> 0]
    /\ f_answer = [f \in Requests |-> "none"]

CacheIdle ==
    /\ cache_backend = "redis"
    /\ redis_up = TRUE
    /\ redis_client = FALSE
    /\ redis_store = EmptyStore
    /\ max_size = 1
    /\ cache = EmptyStore
    /\ access_times = <<>>
    /\ c_ret = NoRet
    /\ c_ops = 0

Init ==
    /\ tools \in Registries
    /\ EngineInit
    /\ ValIdle
    /\ RateIdle
    /\ GateIdle
    /\ CacheIdle
    /\ FrontIdle

Next == ProcessRequest \/ ToolReturns \/ ToolRaises \/ ToolCancelled

Spec == Init /\ [][Next]_vars

(***************************************************************************)
(* SpecVal: validate_result applied to every ToolResult and threshold.     *)
(***************************************************************************)
ValInputs ==
    [result : { ToolResult(st, d, e, c, NoSource) :
                  st \in ToolStatus, d \in {NoData, <<1>>},
                  e \in {NoError, ProviderError}, c \in Confidences },
     min_conf : Confidences]

Validate ==
    /\ ~val_out.done
    /\ val_out' = [done |-> TRUE,
                   accepted |-> validate_result(val_in.result, val_in.min_conf)]
    /\ UNCHANGED <<val_in, conf_in, conf_out, engine_vars, rate_vars, prod_vars>>

InitVal ==
    /\ tools = <<>>
    /\ EngineInit
    /\ val_in \in ValInputs
    /\ val_out = [done |-> FALSE, accepted |-> FALSE]
    /\ ConfIdle
    /\ RateIdle
    /\ GateIdle
    /\ CacheIdle
    /\ FrontIdle

SpecVal == InitVal /\ [][Validate]_vars

(***************************************************************************)
(* SpecRate: is_allowed calls of the clients over a non-decreasing clock.  *)
(***************************************************************************)
IsAllowed ==
    /\ rl_calls < MaxRateCalls
    /\ \E c \in Clients : is_allowed(c)
    /\ rl_calls' = rl_calls + 1
    /\ UNCHANGED <<now, config, ticks, engine_vars, val_vars, prod_vars>>

Tick ==
    /\ ticks < MaxTicks
    /\ \E d \in Jumps : now' = now + d
    /\ ticks' = ticks + 1
    /\ UNCHANGED <<config, requests_per_minute, requests_per_hour,
                   burst_requests, rl_result, admitted, rl_calls,
                   engine_vars, val_vars, prod_vars>>

InitRate ==
    /\ tools = <<>>
    /\ EngineInit
    /\ ValIdle
    /\ now = 0
    /\ config \in { RateLimitConfig(m, h, b) : m \in Limits, h \in Limits, b \in Limits }
    /\ requests_per_minute = [c \in Clients |-> <<>>]
    /\ requests_per_hour = [c \in Clients |-> <<>>]
    /\ burst_requests = [c \in Clients |-> <<>>]
    /\ rl_result = NoRateResult
    /\ admitted = [c \in Clients |-> <<>>]
    /\ rl_calls = 0
    /\ ticks = 0
    /\ GateIdle
    /\ CacheIdle
    /\ FrontIdle

NextRate == IsAllowed \/ Tick

SpecRate == InitRate /\ [][NextRate]_vars

(***************************************************************************)
(* SpecGate: ProductionOrchestrator.process_request, called by concurrent  *)
(* requests.  The code between two awaits runs without interruption; a     *)
(* request can be suspended at the semaphore (g_pc = "wait") and inside    *)
(* tool.execute (g_pc = "await").  Requests are numbered in the order of   *)
(* their arrival, which is the order of request_counter.                   *)
(***************************************************************************)
walk_locals == <<pc, query, available_tools, i, last_result, returned,
                 response, invoked, hist_start, log_start, start_time>>

\* the requests that hold a slot: inside the "async with" block, or woken
\* by a release (Semaphore._wake_up_next takes the slot for the waiter)
Holders == { r \in Requests : g_pc[r] \in {"await", "woken"} }

\* Semaphore._waiters whose future is pending, and the first of them (the
\* requests reach the semaphore in the order of their numbers)
Waiting == { r \in Requests : g_pc[r] = "wait" }

FirstWaiting == CHOOSE r \in Waiting : \A o \in Waiting : r <= o

\* Semaphore.locked(): no free slot, or a waiter that is not cancelled
locked == ~CanAcquire(semaphore) \/ \E r \in Requests : g_pc[r] \in {"wait", "woken"}

\* Semaphore.release() followed by the end of request r with kind
\* (released tells whether release() runs): the counter goes up unless
\* _wake_up_next hands the slot to the first pending waiter
ReleaseAndEnd(r, kind, released) ==
    /\ g_response' = [g_response EXCEPT ![r] = kind]
    /\ IF released /\ Waiting # {}
       THEN /\ g_pc' = [g_pc EXCEPT ![r] = "done", ![FirstWaiting] = "woken"]
            /\ UNCHANGED semaphore
       ELSE /\ g_pc' = [g_pc EXCEPT ![r] = "done"]
            /\ semaphore' = IF released THEN semaphore + 1 ELSE semaphore

\* the ledger entries the requests in flight can still append
RECURSIVE Pending(_)
Pending(rs) ==
    IF rs = {} THEN 0
    ELSE LET r == CHOOSE x \in rs : TRUE
             n == Len(get_available_tools(tools))
         IN  (IF g_pc[r] = "await" THEN n - g_i[r] + 1
              ELSE IF g_pc[r] \in {"wait", "woken"} THEN n ELSE 0)
             + Pending(rs \ {r})

\* the finally clause and __aexit__ of the "async with"
Leave_keeps_record(r, kind) ==
    /\ UNCHANGED active_requests
    /\ ReleaseAndEnd(r, kind, Released(kind))

Leave(r, kind) ==
    /\ active_requests' = active_requests \ {r}
    /\ ReleaseAndEnd(r, kind, Released(kind))

\* from the return of execute_with_fallback to the return of the production
\* process_request: the response of the base orchestrator, the compaction
\* of the ledger when it is due, the finally clause, the release
Return(r, result, history) ==
    /\ success_count' = IF is_success(result) THEN success_count + 1 ELSE success_count
    /\ fallback_count' = IF FallbackUsed(result, history)
                         THEN fallback_count + 1 ELSE fallback_count
    /\ IF should_cleanup(now, last_cleanup)
       THEN /\ execution_history' = cleanup_history(history,
                                        memory_config.max_execution_history)
            /\ last_cleanup' = now
       ELSE /\ execution_history' = history
            /\ UNCHANGED last_cleanup
    /\ Leave(r, IF is_success(result) THEN "success" ELSE "failed")

\* the loop body of execute_with_fallback for request r, given the
\* ToolResult of execute_tool and the ledger as execute_tool left it
GateLoopBody(r, result, history) ==
    LET avail == get_available_tools(tools)
        tool  == avail[g_i[r]]
    IN  IF validate_result(result, min_confidence)
        THEN /\ Return(r, result, history)
             /\ UNCHANGED <<fallback_log, g_i, g_invocations>>
        ELSE IF g_i[r] < Len(avail)
        THEN /\ fallback_log' = Append(fallback_log,
                    FallbackEvent(tool.name, avail[g_i[r] + 1].name,
                                  FallbackReason(result)))
             /\ g_i' = [g_i EXCEPT ![r] = NextIndex(@)]
             /\ g_invocations' = [g_invocations EXCEPT ![r] = @ + 1]
             /\ execution_history' = history
             /\ UNCHANGED <<success_count, fallback_count, last_cleanup,
                            semaphore, active_requests, g_pc, g_response>>
        ELSE /\ Return(r, ExhaustedResult(result), history)
             /\ UNCHANGED <<fallback_log, g_i, g_invocations>>

\* the slot is taken: the ActiveRequest record, then the base orchestrator
\* up to the await of the first tool.execute
Enter(r) ==
    /\ semaphore' = semaphore - 1
    /\ active_requests' = active_requests \cup {r}
    /\ request_count' = request_count + 1
    /\ g_pc' = [g_pc EXCEPT ![r] = "await"]
    /\ g_i' = [g_i EXCEPT ![r] = 1]
    /\ g_invocations' = [g_invocations EXCEPT ![r] = 1]

\* the end of Semaphore.acquire() for a waiter that release() has woken
\* (the slot is already its own), then the block as in Enter
Resume(r) ==
    /\ active_requests' = active_requests \cup {r}
    /\ request_count' = request_count + 1
    /\ g_i' = [g_i EXCEPT ![r] = 1]
    /\ g_invocations' = [g_invocations EXCEPT ![r] = 1]
    /\ IF CanAcquire(semaphore) /\ Waiting # {}
       THEN /\ g_pc' = [g_pc EXCEPT ![r] = "await", ![FirstWaiting] = "woken"]
            /\ semaphore' = semaphore - 1
       ELSE /\ g_pc' = [g_pc EXCEPT ![r] = "await"]
            /\ UNCHANGED semaphore

\* process_request up to its first suspension for a request of client c
\* with request_data data: request_counter, is_allowed,
\* validate_request_size and, when a slot is free, the acquisition
Arrive(c, data) ==
    LET r == request_counter + 1 IN
    /\ request_counter' = r
    /\ g_client' = [g_client EXCEPT ![r] = c]
    /\ is_allowed(c)
    /\ LET allowed == rl_result'.allowed
           valid   == validate_request_size(data)
           verdict == AdmissionVerdict(allowed, valid)
       IN  /\ g_check' = [g_check EXCEPT ![r] =
                            [allowed |-> allowed, valid |-> allowed /\ valid]]
           /\ IF verdict # "admit"
              THEN /\ g_pc' = [g_pc EXCEPT ![r] = "done"]
                   /\ g_response' = [g_response EXCEPT ![r] = verdict]
                   /\ UNCHANGED <<semaphore, active_requests, request_count,
                                  g_i, g_invocations>>
              ELSE IF ~locked
              THEN /\ Enter(r)
                   /\ UNCHANGED g_response
              ELSE /\ g_pc' = [g_pc EXCEPT ![r] = "wait"]
                   /\ UNCHANGED <<semaphore, active_requests, request_count,
                                  g_i, g_invocations, g_response>>
    /\ UNCHANGED <<tools, execution_history, fallback_log, success_count,
                   fallback_count, walk_locals, val_vars, now, config,
                   rl_calls, ticks, max_concurrent_requests, memory_config,
                   last_cleanup>>

\* a request arrives at the production orchestrator
GateArrive ==
    /\ request_counter < MaxRequests
    /\ Len(execution_history) + Pending(Requests)
         + Len(get_available_tools(tools)) <= MaxLedger
    /\ \E c \in Clients, data \in RequestData : Arrive(c, data)
    /\ UNCHANGED <<cache_vars, front_vars>>

\* a request woken at the semaphore runs again: acquire() returns (waking
\* the next waiter when a slot is free) and the block is entered
GateAcquire ==
    /\ \E r \in Requests :
         /\ g_pc[r] = "woken"
         /\ Resume(r)
    /\ UNCHANGED <<tools, execution_history, fallback_log, success_count,
                   fallback_count, walk_locals, val_vars, cache_vars, front_vars, rate_vars,
                   max_concurrent_requests, memory_config, request_counter,
                   last_cleanup, g_client, g_response, g_check>>

\* tool.execute of a request returns a ToolResult
GateToolReturns ==
    /\ \E r \in Requests :
         /\ g_pc[r] = "await"
         /\ LET name == get_available_tools(tools)[g_i[r]].name IN
            \E result \in ExecuteResults(name) :
               GateLoopBody(r, result,
                            RecordExecution(execution_history, name, r, result))
    /\ UNCHANGED <<tools, request_count, walk_locals, val_vars, cache_vars, front_vars, rate_vars,
                   max_concurrent_requests, memory_config, request_counter,
                   g_client, g_check>>

\* tool.execute of a request raises: execute_tool turns it into a Failure
\* and records nothing
GateToolRaises ==
    /\ \E r \in Requests :
         /\ g_pc[r] = "await"
         /\ GateLoopBody(r, ExceptionResult, execution_history)
    /\ UNCHANGED <<tools, request_count, walk_locals, val_vars, cache_vars, front_vars, rate_vars,
                   max_concurrent_requests, memory_config, request_counter,
                   g_client, g_check>>

\* an Exception leaves the base orchestrator: the except clause answers
\* "Internal error", the finally clause and the release follow
GateRaises ==
    /\ \E r \in Requests :
         /\ g_pc[r] = "await"
         /\ Leave(r, "internal_error")
    /\ UNCHANGED <<engine_vars, val_vars, cache_vars, front_vars, rate_vars, max_concurrent_requests,
                   memory_config, request_counter, last_cleanup, g_client,
                   g_i, g_check, g_invocations>>

\* the caller is cancelled: CancelledError passes the except clause; inside
\* the block the finally clause and the release run, at the semaphore the
\* request gives up its place in the queue, or the slot it was woken with
GateCancelled ==
    /\ \E r \in Requests :
         \/ /\ g_pc[r] = "await"
            /\ Leave(r, "cancelled")
         \/ /\ g_pc[r] = "woken"
            /\ ReleaseAndEnd(r, "cancelled", TRUE)
            /\ UNCHANGED active_requests
         \/ /\ g_pc[r] = "wait"
            /\ g_pc' = [g_pc EXCEPT ![r] = "done"]
            /\ g_response' = [g_response EXCEPT ![r] = "cancelled"]
            /\ UNCHANGED <<semaphore, active_requests>>
    /\ UNCHANGED <<engine_vars, val_vars, cache_vars, front_vars, rate_vars, max_concurrent_requests,
                   memory_config, request_counter, last_cleanup, g_client,
                   g_i, g_check, g_invocations>>

InitGate ==
    /\ tools = ProductionRegistry
    /\ EngineInit
    /\ ValIdle
    /\ now \in {0, cleanup_interval_seconds + 1}
    /\ config \in GateConfigs
    /\ requests_per_minute = [c \in Clients |-> <<>>]
    /\ requests_per_hour = [c \in Clients |-> <<>>]
    /\ burst_requests = [c \in Clients |-> <<>>]
    /\ rl_result = NoRateResult
    /\ admitted = [c \in Clients |-> <<>>]
    /\ rl_calls = 0
    /\ ticks = 0
    /\ max_concurrent_requests \in Capacities
    /\ semaphore = max_concurrent_requests
    /\ memory_config \in [max_execution_history : HistoryLimits]
    /\ active_requests = {}
    /\ request_counter = 0
    /\ last_cleanup = 0
    /\ g_pc = [r \in Requests |-> "new"]
    /\ g_client = [r \in Requests |-> "none"]
    /\ g_i = [r \in Requests |-> 0]
    /\ g_response = [r \in Requests |-> "none"]
    /\ g_check = [r \in Requests |-> NoCheck]
    /\ g_invocations = [r \in Requests |-> 0]
    /\ CacheIdle
    /\ FrontIdle

NextGate ==
    \/ GateArrive
    \/ GateAcquire
    \/ GateToolReturns
    \/ GateToolRaises
    \/ GateRaises
    \/ GateCancelled

SpecGate == InitGate /\ [][NextGate]_vars

(***************************************************************************)
(* SpecCache: the calls of one cache manager, of either class, while the   *)
(* clock advances and the Redis server comes and goes.                     *)
(***************************************************************************)
CacheSet ==
    /\ c_ops < MaxCacheOps
    /\ \E q \in CacheQueries, text \in FormattedOutputs, ttl \in TTLs :
         cache_result(q, Payload(text), ttl)
    /\ c_ops' = c_ops + 1
    /\ UNCHANGED <<cache_backend, redis_up, max_size, engine_vars, val_vars,
                   rate_vars, gate_vars, front_vars>>

CacheGet ==
    /\ c_ops < MaxCacheOps
    /\ \E q \in CacheQueries : get_cached_result(q)
    /\ c_ops' = c_ops + 1
    /\ UNCHANGED <<cache_backend, redis_up, max_size, engine_vars, val_vars,
                   rate_vars, gate_vars, front_vars>>

CacheInvalidate ==
    /\ c_ops < MaxCacheOps
    /\ \E pattern \in Patterns : invalidate_cache(pattern)
    /\ c_ops' = c_ops + 1
    /\ UNCHANGED <<cache_backend, redis_up, max_size, engine_vars, val_vars,
                   rate_vars, gate_vars, front_vars>>

CacheStats ==
    /\ c_ops < MaxCacheOps
    /\ get_cache_stats
    /\ c_ops' = c_ops + 1
    /\ UNCHANGED <<cache_backend, redis_up, max_size, engine_vars, val_vars,
                   rate_vars, gate_vars, front_vars>>

\* the Redis server becomes unreachable, or reachable again
RedisFlips ==
    /\ cache_backend = "redis"
    /\ redis_up' = ~redis_up
    /\ UNCHANGED <<cache_backend, redis_client, redis_store, max_size, cache,
                   access_times, c_ret, c_ops, engine_vars, val_vars,
                   rate_vars, gate_vars, front_vars>>

CacheTick ==
    /\ ticks < MaxCacheTicks
    /\ \E d \in CacheJumps : now' = now + d
    /\ ticks' = ticks + 1
    /\ UNCHANGED <<config, requests_per_minute, requests_per_hour,
                   burst_requests, rl_result, admitted, rl_calls,
                   engine_vars, val_vars, prod_vars>>

InitCache ==
    /\ tools = <<>>
    /\ EngineInit
    /\ ValIdle
    /\ RateIdle
    /\ GateIdle
    /\ cache_backend \in {"redis", "memory"}
    /\ redis_up \in BOOLEAN
    /\ redis_client = FALSE
    /\ redis_store = EmptyStore
    /\ max_size \in MemSizes
    /\ cache = EmptyStore
    /\ access_times = <<>>
    /\ c_ret = NoRet
    /\ c_ops = 0
    /\ FrontIdle

NextCache ==
    CacheSet \/ CacheGet \/ CacheInvalidate \/ CacheStats \/ RedisFlips \/ CacheTick

SpecCache == InitCache /\ [][NextCache]_vars

(***************************************************************************)
(* SpecFront: the search_web handler (production_server.call_tool and      *)
(* http_api.search_web), one request at a time: the cache lookup, the      *)
(* production orchestrator, the cache write.  The cache manager is the one *)
(* main() selected: CacheManager when Redis answered at start-up,          *)
(* MemoryCacheManager otherwise.                                           *)
(***************************************************************************)
DefaultMaxSize == 1000

\* "await cache_manager.<method>(...)": the methods of MemoryCacheManager
\* are plain functions, and awaiting what they return raises TypeError
AwaitRaises == cache_backend = "memory"

\* the handler starts: the cache lookup when use_cache is set, and the
\* answer from the cache on a hit
FrontLookup ==
    /\ f_pc = "idle"
    /\ f_count < MaxSearches
    /\ \E q \in CacheQueries, use_cache \in BOOLEAN :
         LET f == f_count + 1 IN
         /\ f_count' = f
         /\ f_query' = [f_query EXCEPT ![f] = q]
         /\ f_use_cache' = [f_use_cache EXCEPT ![f] = use_cache]
         /\ IF use_cache
            THEN /\ get_cached_result(q)
                 /\ c_ops' = c_ops + 1
                 /\ f_lookup' = [f_lookup EXCEPT ![f] =
                                   IF c_ret'.got # <<>> THEN "hit" ELSE "miss"]
                 /\ IF AwaitRaises
                    THEN /\ f_answer' = [f_answer EXCEPT ![f] = "error"]
                         /\ UNCHANGED f_pc
                    ELSE IF c_ret'.got # <<>>
                    THEN /\ f_answer' = [f_answer EXCEPT ![f] = "cached"]
                         /\ UNCHANGED f_pc
                    ELSE /\ f_pc' = "process"
                         /\ UNCHANGED f_answer
            ELSE /\ f_lookup' = [f_lookup EXCEPT ![f] = "skipped"]
                 /\ f_pc' = "process"
                 /\ UNCHANGED <<f_answer, redis_client, redis_store, cache,
                                access_times, c_ret, c_ops>>
    /\ UNCHANGED <<cache_backend, redis_up, max_size, f_gate, engine_vars,
                   val_vars, rate_vars, gate_vars>>

\* the handler calls production_orchestrator.process_request
FrontProcess ==
    /\ f_pc = "process"
    /\ Len(execution_history) + Len(get_available_tools(tools)) <= MaxLedger
    /\ \E c \in Clients, data \in RequestData : Arrive(c, data)
    /\ f_gate' = [f_gate EXCEPT ![f_count] = request_counter + 1]
    /\ f_pc' = "engine"
    /\ UNCHANGED <<cache_vars, f_count, f_query, f_use_cache, f_lookup,
                   f_answer>>

\* "if use_cache and cache_manager and response.success"
ShouldCache_any_response(kind, use_cache) == use_cache /\ kind # "cancelled"

ShouldCache(kind, use_cache) == use_cache /\ kind = "success"

\* process_request has returned (or was cancelled): the cache write when
\* the response is a success, and the answer
FrontStore ==
    /\ f_pc = "engine"
    /\ g_pc[f_gate[f_count]] = "done"
    /\ f_pc' = "idle"
    /\ LET f == f_count
           kind == g_response[f_gate[f]]
       IN  IF ShouldCache(kind, f_use_cache[f])
           THEN /\ \E text \in FormattedOutputs :
                     cache_result(f_query[f], Payload(text), 0)
                /\ c_ops' = c_ops + 1
                /\ f_answer' = [f_answer EXCEPT ![f] =
                                  IF AwaitRaises THEN "error" ELSE "fresh"]
           ELSE /\ f_answer' = [f_answer EXCEPT ![f] =
                                  IF kind = "success" THEN "fresh"
                                  ELSE IF kind = "cancelled" THEN "cancelled"
                                  ELSE "failed"]
                /\ UNCHANGED <<redis_client, redis_store, cache,
                               access_times, c_ret, c_ops>>
    /\ UNCHANGED <<cache_backend, redis_up, max_size, f_count, f_query,
                   f_use_cache, f_lookup, f_gate, engine_vars, val_vars,
                   rate_vars, gate_vars>>

InitFront ==
    /\ tools = ProductionRegistry
    /\ EngineInit
    /\ ValIdle
    /\ now = 0
    /\ config \in GateConfigs
    /\ requests_per_minute = [c \in Clients |-> <<>>]
    /\ requests_per_hour = [c \in Clients |-> <<>>]
    /\ burst_requests = [c \in Clients |-> <<>>]
    /\ rl_result = NoRateResult
    /\ admitted = [c \in Clients |-> <<>>]
    /\ rl_calls = 0
    /\ ticks = 0
    /\ max_concurrent_requests \in Capacities
    /\ semaphore = max_concurrent_requests
    /\ memory_config \in [max_execution_history : HistoryLimits]
    /\ active_requests = {}
    /\ request_counter = 0
    /\ last_cleanup = 0
    /\ g_pc = [r \in Requests |-> "new"]
    /\ g_client = [r \in Requests |-> "none"]
    /\ g_i = [r \in Requests |-> 0]
    /\ g_response = [r \in Requests |-> "none"]
    /\ g_check = [r \in Requests |-> NoCheck]
    /\ g_invocations = [r \in Requests |-> 0]
    /\ redis_up \in BOOLEAN
    /\ cache_backend = IF redis_up THEN "redis" ELSE "memory"
    /\ redis_client = redis_up
    /\ redis_store = EmptyStore
    /\ max_size = DefaultMaxSize
    /\ cache = EmptyStore
    /\ access_times = <<>>
    /\ c_ret = NoRet
    /\ c_ops = 0
    /\ FrontIdle

NextFront ==
    \/ FrontLookup
    \/ FrontProcess
    \/ GateToolReturns
    \/ GateToolRaises
    \/ GateRaises
    \/ GateCancelled
    \/ FrontStore
    \/ RedisFlips

SpecFront == InitFront /\ [][NextFront]_vars

(***************************************************************************)
(* SpecReg: the ToolRegistry on its own: register_tool, unregister_tool    *)
(* and get_available_tools called in any order.                            *)
(***************************************************************************)
RegisterTool ==
    /\ \E n \in ToolNames, p \in Priorities, a \in BOOLEAN :
         tools' = register_tool(tools, Tool(n, p, a))
    /\ UNCHANGED <<execution_history, fallback_log, request_count,
                   success_count, fallback_count, pc, query, available_tools,
                   i, last_result, returned, response, invoked, hist_start,
                   log_start, start_time, val_vars, rate_vars, prod_vars>>

UnregisterTool ==
    /\ \E n \in ToolNames : tools' = unregister_tool(tools, n)
    /\ UNCHANGED <<execution_history, fallback_log, request_count,
                   success_count, fallback_count, pc, query, available_tools,
                   i, last_result, returned, response, invoked, hist_start,
                   log_start, start_time, val_vars, rate_vars, prod_vars>>

\* a caller keeps what get_available_tools returned
GetAvailableTools ==
    /\ available_tools' = get_available_tools(tools)
    /\ UNCHANGED <<tools, execution_history, fallback_log, request_count,
                   success_count, fallback_count, pc, query, i, last_result,
                   returned, response, invoked, hist_start, log_start,
                   start_time, val_vars, rate_vars, prod_vars>>

InitReg ==
    /\ tools = <<>>
    /\ EngineInit
    /\ ValIdle
    /\ RateIdle
    /\ GateIdle
    /\ CacheIdle
    /\ FrontIdle

NextReg == RegisterTool \/ UnregisterTool \/ GetAvailableTools

SpecReg == InitReg /\ [][NextReg]_vars

(***************************************************************************)
(* SpecMem: MemoryCacheManager on its own, with more keys than max_size:   *)
(* cache_result and get_cached_result over a clock.                        *)
(***************************************************************************)
\* one payload: the payload plays no part in expiry and eviction
MemCacheResult ==
    /\ c_ops < MaxMemOps
    /\ \E q \in MemQueries, ttl \in TTLs :
         cache_result(q, Payload("text1"), ttl)
    /\ c_ops' = c_ops + 1
    /\ UNCHANGED <<cache_backend, redis_up, max_size, engine_vars, val_vars,
                   rate_vars, gate_vars, front_vars>>

MemGetCachedResult ==
    /\ c_ops < MaxMemOps
    /\ \E q \in MemQueries : get_cached_result(q)
    /\ c_ops' = c_ops + 1
    /\ UNCHANGED <<cache_backend, redis_up, max_size, engine_vars, val_vars,
                   rate_vars, gate_vars, front_vars>>

InitMem ==
    /\ tools = <<>>
    /\ EngineInit
    /\ ValIdle
    /\ RateIdle
    /\ GateIdle
    /\ cache_backend = "memory"
    /\ redis_up = FALSE
    /\ redis_client = FALSE
    /\ redis_store = EmptyStore
    /\ max_size \in MemSizes
    /\ cache = EmptyStore
    /\ access_times = <<>>
    /\ c_ret = NoRet
    /\ c_ops = 0
    /\ FrontIdle

NextMem == MemCacheResult \/ MemGetCachedResult \/ CacheTick

SpecMem == InitMem /\ [][NextMem]_vars

(***************************************************************************)
(* Helpers of the properties.                                              *)
(***************************************************************************)
\* a call of execute_with_fallback has returned (to process_request, which
\* has returned too: there is no suspension between the two)
CallReturned == pc = "idle" /\ request_count > 0

Accepted(result) ==
    /\ result.status = SUCCESS
    /\ result.confidence >= min_confidence
    /\ result.data # NoData

PriorityOf(name) == tools[name].priority

AvailableNames == { tools[k].name : k \in { j \in DOMAIN tools : tools[j].available } }

Position(name) == CHOOSE k \in DOMAIN tools : tools[k].name = name

\* name a comes before name b in the order of the walk: lower priority
\* number first, registration order among equals
Before(a, b) ==
    \/ PriorityOf(a) < PriorityOf(b)
    \/ PriorityOf(a) = PriorityOf(b) /\ Position(a) < Position(b)

(***************************************************************************)
(* C1. Within one execute_with_fallback call the available tools are       *)
(* invoked one at a time, in ascending priority order and without skipping *)
(* any; the call returns the result of the first tool whose result is      *)
(* accepted, and no tool is invoked after an acceptance.                   *)
(***************************************************************************)
C1_PriorityOrderFirstAcceptanceWins ==
    /\ \A k \in DOMAIN invoked :
         /\ invoked[k].tool \in AvailableNames
         \* ascending priority
         /\ \A j \in 1..(k - 1) :
              PriorityOf(invoked[j].tool) <= PriorityOf(invoked[k].tool)
         \* nothing skipped: every available tool that comes before was invoked before
         /\ \A a \in AvailableNames :
              Before(a, invoked[k].tool) => \E j \in 1..(k - 1) : invoked[j].tool = a
         \* an accepted result ends the walk and is what the call returns
         /\ Accepted(invoked[k].result) =>
              /\ k = Len(invoked)
              /\ pc = "idle"
              /\ returned = invoked[k].result
    \* one at a time: a tool is awaited only when all earlier ones have ended
    /\ pc = "await" =>
         /\ Len(invoked) = i - 1
         /\ i \in DOMAIN available_tools
         /\ \A k \in DOMAIN invoked : ~Accepted(invoked[k].result)

\* a registry whose registration order is not its priority order, both
\* tools tried, the second one accepted
C1_Witness ==
    /\ CallReturned
    /\ Len(tools) >= 2
    /\ tools[1].available /\ tools[2].available
    /\ tools[1].priority > tools[2].priority
    /\ Len(invoked) = 2
    /\ invoked[1].tool = 2 /\ invoked[2].tool = 1
    /\ Accepted(returned)

(***************************************************************************)
(* C2. The ToolResult a call returns is the result of one tool invocation  *)
(* of that call (the last one), every tool is invoked at most once per     *)
(* call, and the payload and source delivered to the caller are those of   *)
(* that one tool: the other attempted tools appear in the history only.    *)
(* (A call that finds no available tool invokes nothing and returns the    *)
(* NotFound result: no provider's result at all.)                          *)
(***************************************************************************)
C2_OneProviderResult ==
    /\ \A j, k \in DOMAIN invoked : invoked[j].tool = invoked[k].tool => j = k
    /\ Len(invoked) <= Len(available_tools)
    /\ CallReturned =>
         IF invoked = <<>>
         THEN /\ available_tools = <<>>
              /\ returned.data = NoData /\ response.data = NoData
         ELSE LET last == invoked[Len(invoked)] IN
              /\ returned = last.result
              /\ returned.data \in {NoData, <<last.tool>>}
              /\ returned.source \in {NoSource, <<last.tool>>}
              /\ response.data \in {NoData, <<last.tool>>}
              /\ response.source \in {NoSource, <<last.tool>>}
              /\ \A k \in 1..(Len(invoked) - 1) :
                   /\ returned.data # <<invoked[k].tool>>
                   /\ response.data # <<invoked[k].tool>>

\* two tools tried, the first one's Success result rejected for low
\* confidence, the second one's payload delivered
C2_Witness ==
    /\ CallReturned
    /\ Len(invoked) = 2
    /\ invoked[1].result.status = SUCCESS
    /\ invoked[1].result.data # NoData
    /\ response.success
    /\ response.data = <<invoked[2].tool>>
    /\ Len(execution_history) - hist_start = 2

(***************************************************************************)
(* C3. validate_result accepts a result if and only if its status is       *)
(* Success, its confidence is greater than or equal to the threshold and   *)
(* its payload is non-empty, for every combination of status, confidence,  *)
(* payload, error and threshold; confidence equal to the threshold is      *)
(* accepted.                                                               *)
(***************************************************************************)
C3_ValidateIsConjunction ==
    val_out.done =>
        (val_out.accepted <=>
            /\ val_in.result.status = SUCCESS
            /\ val_in.result.confidence >= val_in.min_conf
            /\ val_in.result.data # NoData)

\* a Success result with a payload and confidence exactly at a positive
\* threshold has been validated and accepted
C3_Witness ==
    /\ val_out.done
    /\ val_out.accepted
    /\ val_in.min_conf > 0
    /\ val_in.result.confidence = val_in.min_conf

(***************************************************************************)
(* C4. A request is reported to the caller as successful (success = true,  *)
(* payload delivered, success_count incremented) only if the result the    *)
(* fallback walk returned was accepted: status Success, confidence >=      *)
(* threshold and non-empty payload.                                        *)
(***************************************************************************)
C4_SuccessOnlyIfAccepted ==
    CallReturned =>
        /\ response.success => Accepted(returned)
        /\ response.data # NoData => Accepted(returned)
        /\ success_count <= Cardinality({ k \in DOMAIN execution_history :
                                            execution_history[k].status = SUCCESS })
        /\ (request_count = 1 /\ success_count = 1) => Accepted(returned)

(***************************************************************************)
(* C5. If every available tool is tried and none of the results is         *)
(* accepted, execute_with_fallback returns the last obtained ToolResult    *)
(* (that of the last tool of the walk, with its own status, error and      *)
(* payload), not a generic failure.                                        *)
(***************************************************************************)
C5_ExhaustedReturnsLastResult ==
    (CallReturned /\ invoked # <<>> /\ ~Accepted(returned)) =>
        /\ Len(invoked) = Len(available_tools)
        /\ invoked[Len(invoked)].tool = available_tools[Len(available_tools)].name
        /\ returned = invoked[Len(invoked)].result
        /\ returned = last_result
        /\ returned.error # AllFailedError

\* two tools exhausted: the first failed, the second timed out, and the
\* caller gets the Timeout of the second
C5_Witness ==
    /\ CallReturned
    /\ Len(invoked) = 2
    /\ invoked[1].result.status = FAILURE
    /\ invoked[2].result.status = TIMEOUT
    /\ returned.status = TIMEOUT
    /\ returned.error = TimeoutError

(***************************************************************************)
(* C6. When no registered tool is available, execute_with_fallback returns *)
(* a result with status NotFound and a non-empty error, invokes no tool,   *)
(* appends nothing to the ledger and emits no fallback event.              *)
(***************************************************************************)
C6_NoToolsNotFound ==
    (CallReturned /\ AvailableNames = {}) =>
        /\ returned.status = NOT_FOUND
        /\ returned.error # NoError
        /\ invoked = <<>>
        /\ Len(execution_history) = hist_start
        /\ Len(fallback_log) = log_start
        /\ ~response.success

\* tools are registered but none is available, and a second request has
\* been answered NotFound too
C6_Witness ==
    /\ CallReturned
    /\ request_count = 2
    /\ Len(tools) >= 2
    /\ AvailableNames = {}
    /\ returned.status = NOT_FOUND
    /\ response.feedback = "warn_no_tools"

(***************************************************************************)
(* C7. Every tool invocation made during a fallback walk appends exactly   *)
(* one ExecutionHistoryEntry to the ledger whatever its outcome: Success,  *)
(* Failure, Timeout, a raised exception or a cancelled request all leave   *)
(* one entry, for that tool and that query, in the order of invocation.    *)
(***************************************************************************)
C7_OneEntryPerInvocation ==
    /\ Len(execution_history) - hist_start = Len(invoked)
    /\ \A k \in DOMAIN invoked :
         /\ execution_history[hist_start + k].tool = invoked[k].tool
         /\ execution_history[hist_start + k].query = query

(***************************************************************************)
(* C8. An exception raised by a tool's execute never propagates out of     *)
(* execute_with_fallback: it is converted into a ToolResult with status    *)
(* Failure carrying an error, that result is rejected by validation, and   *)
(* the walk continues with the next tool (or, after the last tool, the     *)
(* call returns that Failure result).                                      *)
(***************************************************************************)
C8_ExceptionBecomesFailure ==
    \A k \in DOMAIN invoked :
        invoked[k].kind = "raise" =>
            /\ invoked[k].result.status = FAILURE
            /\ invoked[k].result.error # NoError
            /\ ~validate_result(invoked[k].result, min_confidence)
            /\ IF k < Len(available_tools)
               THEN \/ Len(invoked) > k /\ invoked[k + 1].tool = available_tools[k + 1].name
                    \/ Len(invoked) = k /\ pc = "await" /\ i = k + 1
               ELSE /\ pc = "idle"
                    /\ returned = invoked[k].result
                    /\ ~response.success
                    /\ response.error = invoked[k].result.error

\* the first tool raised, the walk went on and the second tool's accepted
\* result was returned
C8_Witness ==
    /\ CallReturned
    /\ Len(invoked) = 2
    /\ invoked[1].kind = "raise"
    /\ invoked[2].kind = "result"
    /\ Accepted(returned)
    /\ response.success

(***************************************************************************)
(* C9. On a fresh engine with two available tools of priorities 0 and 1,   *)
(* where tool 0 returns Success with confidence below the threshold and    *)
(* tool 1 returns an acceptable result, execute_with_fallback returns      *)
(* tool 1's result, the history holds exactly 2 entries (tool 0, then      *)
(* tool 1) and exactly one fallback event is emitted, from tool 0 to       *)
(* tool 1, with the low-confidence reason.                                 *)
(***************************************************************************)
C9_Scenario ==
    /\ request_count = 1
    /\ Len(available_tools) = 2
    /\ available_tools[1].priority = 0
    /\ available_tools[2].priority = 1
    /\ Len(invoked) = 2
    /\ invoked[1].kind = "result"
    /\ invoked[1].result.status = SUCCESS
    /\ invoked[1].result.confidence < min_confidence
    /\ invoked[2].kind = "result"
    /\ Accepted(invoked[2].result)

C9_LowConfidenceFallback ==
    C9_Scenario =>
        /\ pc = "idle"
        /\ returned = invoked[2].result
        /\ returned.data = <<available_tools[2].name>>
        /\ Len(execution_history) = 2
        /\ execution_history[1].tool = available_tools[1].name
        /\ execution_history[2].tool = available_tools[2].name
        /\ fallback_log = << FallbackEvent(available_tools[1].name,
                                           available_tools[2].name,
                                           "Low confidence or invalid result") >>

\* the scenario has run, on a registry where the priority-0 tool was
\* registered second
C9_Witness ==
    /\ C9_Scenario
    /\ CallReturned
    /\ available_tools[1].name = 2
    /\ Len(fallback_log) = 1

(***************************************************************************)
(* C10. For every client C, once burst_limit requests of C have been       *)
(* admitted within the last 10 seconds (admission time t with              *)
(* now - t < 10), the next is_allowed(C) call is rejected with the         *)
(* burst-limit reason, whatever the per-minute and per-hour limits and     *)
(* the contents of the minute and hour windows are.                        *)
(***************************************************************************)
\* the admissions of client c made before the last is_allowed call and less
\* than BurstWindow seconds before it
RecentAdmissionsBeforeLastCall(c) ==
    Cardinality({ k \in DOMAIN admitted[c] : rl_result.at - admitted[c][k] < 10 })
        - (IF rl_result.allowed THEN 1 ELSE 0)

C10_BurstLimitRejects ==
    \A c \in Clients :
        (rl_result.client = c
            /\ RecentAdmissionsBeforeLastCall(c) >= config.burst_limit) =>
                /\ ~rl_result.allowed
                /\ rl_result.reason = "burst"

\* burst_limit = 2 admissions of the client at different times, then a third
\* call less than 10 s after the first: rejected for burst, although the
\* per-minute and per-hour limits are reached as well
C10_Witness ==
    /\ rl_result.client = "c1"
    /\ config.burst_limit = 2
    /\ config.max_requests_per_minute = 2
    /\ config.max_requests_per_hour = 2
    /\ Len(admitted["c1"]) = 2
    /\ admitted["c1"][1] # admitted["c1"][2]
    /\ ~rl_result.allowed
    /\ rl_result.reason = "burst"
    /\ Len(requests_per_minute["c1"]) >= config.max_requests_per_minute
    /\ Len(requests_per_hour["c1"]) >= config.max_requests_per_hour

(***************************************************************************)
(* C11. is_allowed purges the stale entries of all three windows first and *)
(* then checks burst, per-minute, per-hour in that order: the reason names *)
(* the first violated limit (burst if burst is violated, else minute, else *)
(* hour) and the call is allowed only when none is violated.  A limit is   *)
(* violated when the client's earlier admissions younger than the window   *)
(* (10 s, 60 s, 3600 s) number at least the limit.                         *)
(***************************************************************************)
\* the admissions of client c made before the last is_allowed call and less
\* than d seconds before it
AdmissionsBeforeLastCall(c, d) ==
    Cardinality({ k \in DOMAIN admitted[c] : rl_result.at - admitted[c][k] < d })
        - (IF rl_result.allowed THEN 1 ELSE 0)

C11_FirstViolatedLimit ==
    \A c \in Clients :
        rl_result.client = c =>
            LET b == AdmissionsBeforeLastCall(c, 10) >= config.burst_limit
                m == AdmissionsBeforeLastCall(c, 60) >= config.max_requests_per_minute
                h == AdmissionsBeforeLastCall(c, 3600) >= config.max_requests_per_hour
            IN  /\ rl_result.reason = (IF b THEN "burst" ELSE IF m THEN "minute"
                                       ELSE IF h THEN "hour" ELSE "allowed")
                /\ rl_result.allowed <=> ~(b \/ m \/ h)

\* a call made exactly 60 s after the client's only admission: the burst
\* and minute entries are stale and purged, the hour limit of 1 rejects it
C11_Witness ==
    /\ rl_result.client = "c1"
    /\ rl_result.reason = "hour"
    /\ admitted["c1"] = <<0>>
    /\ rl_result.at = 60
    /\ config.max_requests_per_minute = 1
    /\ config.burst_limit = 1

(***************************************************************************)
(* C12. is_allowed(C) appends the current timestamp to all three windows   *)
(* of C exactly when it returns allowed; when it rejects, no timestamp is  *)
(* added to any window (the windows of C only lose their stale entries),   *)
(* and the windows of the other clients are never touched.                 *)
(***************************************************************************)
PurgedAt(window, t, d) == SelectSeq(window, LAMBDA x : t - x < d)

WindowStep(before, after, c, d) ==
    /\ \A o \in Clients \ {c} : after[o] = before[o]
    /\ IF rl_result'.allowed
       THEN after[c] = Append(PurgedAt(before[c], now, d), now)
       ELSE after[c] = PurgedAt(before[c], now, d)

C12_RecordedIffAllowed ==
    [][rl_calls' # rl_calls =>
         /\ WindowStep(burst_requests, burst_requests', rl_result'.client, 10)
         /\ WindowStep(requests_per_minute, requests_per_minute', rl_result'.client, 60)
         /\ WindowStep(requests_per_hour, requests_per_hour', rl_result'.client, 3600)]_vars

\* three calls of one client at the same instant with burst_limit 1: one
\* admitted, two rejected, and the windows hold the one admission only
C12_Witness ==
    /\ rl_calls = 3
    /\ rl_result.client = "c1"
    /\ ~rl_result.allowed
    /\ config.burst_limit = 1
    /\ admitted = [c \in Clients |-> IF c = "c1" THEN <<0>> ELSE <<>>]
    /\ burst_requests["c1"] = <<0>>
    /\ requests_per_minute["c1"] = <<0>>
    /\ requests_per_hour["c1"] = <<0>>

(***************************************************************************)
(* C13. At every moment the number of requests that are past admission and *)
(* not yet completed (holding a slot, able to run a provider call) is at   *)
(* most max_concurrent_requests; a request waiting for a slot has begun no *)
(* provider call, so with capacity 2 and three concurrent callers the      *)
(* third caller's provider call begins only after a release.               *)
(***************************************************************************)
C13_AtMostCapacityInFlight ==
    /\ Cardinality(Holders) <= max_concurrent_requests
    /\ \A r \in Requests :
         /\ g_pc[r] = "wait" => g_invocations[r] = 0
         /\ g_invocations[r] > 0 => g_pc[r] \in {"await", "done"}

\* capacity 2, two requests inside their provider call, the third waiting
C13_Witness ==
    /\ max_concurrent_requests = 2
    /\ Cardinality(Holders) = 2
    /\ \E r \in Requests : g_pc[r] = "wait" /\ g_invocations[r] = 0

RejectedBeforeAdmission(r, kind) ==
    /\ g_pc[r] = "done"
    /\ g_response[r] = kind
    /\ g_i[r] = 0
    /\ g_invocations[r] = 0
    /\ r \notin active_requests
    /\ \A k \in DOMAIN execution_history : execution_history[k].query # r

C15_RejectedBeforeAdmission ==
    \A r \in Requests :
        g_pc[r] # "new" =>
            /\ ~g_check[r].allowed => RejectedBeforeAdmission(r, "rate_limited")
            /\ (g_check[r].allowed /\ ~g_check[r].valid) =>
                   RejectedBeforeAdmission(r, "too_large")

\* one request holds the only slot while a second was rejected as too large
\* and a third by the rate limiter
C15_Witness ==
    /\ max_concurrent_requests = 1
    /\ semaphore = 0
    /\ Cardinality(active_requests) = 1
    /\ \E a, b \in Requests :
         /\ g_response[a] = "too_large"
         /\ g_response[b] = "rate_limited"

(***************************************************************************)
(* C20. Ledger boundary: after any sequence of tool invocations the        *)
(* execution-history ledger holds at most max_execution_history entries    *)
(* (an append beyond the maximum drops the oldest entry).                  *)
(***************************************************************************)
C20_LedgerWithinMaximum ==
    Len(execution_history) <= memory_config.max_execution_history

(***************************************************************************)
(* C18. Cache round trip, on either backend: a get(q, p) that follows a    *)
(* successful set(q, p, payload, ttl) with no other call in between        *)
(* returns exactly payload when no time has passed, and returns absent     *)
(* when more than ttl has elapsed since the set (the backend being         *)
(* reachable at the get).                                                  *)
(***************************************************************************)
C18_CacheRoundTrip ==
    [][(/\ c_ret.op = "set"
        /\ c_ret.ok
        /\ c_ops' = c_ops + 1
        /\ c_ret'.op = "get"
        /\ c_ret'.query = c_ret.query
        /\ cache_backend = "redis" => redis_up)
       => LET elapsed == now - c_ret.at
              ttl == IF c_ret.ttl = 0 THEN default_ttl ELSE c_ret.ttl
          IN  /\ elapsed = 0 => c_ret'.got = c_ret.payload
              /\ elapsed > ttl => c_ret'.got = <<>>]_vars

(***************************************************************************)
(* C19. Invalidation is idempotent: an invalidate call that follows an     *)
(* invalidate call with the same pattern (or both without a pattern), with *)
(* no set in between, returns 0 deleted entries and leaves the cache       *)
(* unchanged.                                                              *)
(***************************************************************************)
C19_InvalidateIdempotent ==
    [][(/\ c_ret.op = "invalidate"
        /\ c_ops' = c_ops + 1
        /\ c_ret'.op = "invalidate"
        /\ c_ret'.pattern = c_ret.pattern)
       => /\ ~c_ret'.raised
          /\ c_ret'.deleted = 0
          /\ RedisLive(redis_store', now) = RedisLive(redis_store, now)
          /\ cache' = cache
          /\ access_times' = access_times]_vars

(***************************************************************************)
(* C16. Order of the steps of a request: a payload is answered from the    *)
(* cache only to a request that has entered the production orchestrator,   *)
(* passed its rate-limit check and its size validation, and holds (or has  *)
(* held) a concurrency slot.                                               *)
(***************************************************************************)
C16_CachedOnlyAfterAdmission ==
    \A f \in Requests :
        f_answer[f] = "cached"
        => /\ f_gate[f] # 0
           /\ g_check[f_gate[f]].allowed
           /\ g_check[f_gate[f]].valid
           /\ g_pc[f_gate[f]] \in {"await", "done"}

(***************************************************************************)
(* C17. Cache lookups are a pure optimization: a search whose lookup finds *)
(* nothing, whichever cache manager start-up selected and whether or not   *)
(* Redis answers, is not answered with an error of the cache; it reaches   *)
(* the production orchestrator.                                            *)
(***************************************************************************)
C17_MissFallsThrough ==
    \A f \in Requests :
        f_lookup[f] = "miss"
        => /\ f_answer[f] # "error"
           /\ (f_pc = "idle" \/ f < f_count) => f_gate[f] # 0

(***************************************************************************)
(* C21. get_available_tools returns exactly the registered tools that are  *)
(* available, each once, in ascending priority order, tools of equal       *)
(* priority in registration order; the registry never holds two tools of   *)
(* the same name, and a registration under a registered name replaces the  *)
(* tool of that name.                                                      *)
(***************************************************************************)
C21_AvailableSortedStableUnique ==
    LET out == get_available_tools(tools)
        At(name) == CHOOSE k \in DOMAIN tools : tools[k].name = name
    IN  /\ { out[k] : k \in DOMAIN out }
             = { tools[k] : k \in { j \in DOMAIN tools : tools[j].available } }
        /\ \A a, b \in DOMAIN out : a < b =>
             /\ out[a].name # out[b].name
             /\ out[a].priority <= out[b].priority
             /\ out[a].priority = out[b].priority
                  => At(out[a].name) < At(out[b].name)
        /\ \A a, b \in DOMAIN tools : a # b => tools[a].name # tools[b].name

\* a listing was taken, then the first registered tool was registered
\* again with another priority: it kept its place in the registry and the
\* order of the listing of two equal priorities is the registration order
C21_Witness ==
    /\ Len(tools) = 2
    /\ Len(available_tools) = 2
    /\ available_tools[1].name = tools[2].name
    /\ available_tools[2].name = tools[1].name
    /\ available_tools[2].priority > tools[1].priority
    /\ tools[1].priority = tools[2].priority
    /\ Len(get_available_tools(tools)) = 2
    /\ get_available_tools(tools)[1] = tools[1]

\* the tool.execute calls of request r that have come to an end inside
\* execute_tool (by a ToolResult or by an Exception); the call a request
\* in flight is waiting for, or was torn away from, is not among them
Completed(r) ==
    IF g_response[r] \in {"success", "failed"} THEN g_invocations[r]
    ELSE IF g_invocations[r] > 0 THEN g_invocations[r] - 1
    ELSE 0

LedgerEntriesOf(r) ==
    Cardinality({ k \in DOMAIN execution_history : execution_history[k].query = r })

C23_BackendsInterchangeable ==
    /\ ~c_ret.raised
    /\ (c_ret.op = "get" /\ c_ret.got # <<>>)
         => c_ret.got[1] \in { Payload(text) : text \in FormattedOutputs }

\* the Fallback_Triggered events of the current execute_with_fallback call
EventsOfCall == SubSeq(fallback_log, log_start + 1, Len(fallback_log))

\* invocation k of the current call ended with a result that was rejected
RejectedAt(k) ==
    /\ invoked[k].kind \in {"result", "raise"}
    /\ ~Accepted(invoked[k].result)

(***************************************************************************)
(* C24. During a fallback walk one fallback event is emitted for each tool *)
(* whose result is rejected and that has a successor in the priority       *)
(* order: from that tool, to the next tool of the order, with the result's *)
(* error as reason when it has one and the low-confidence text otherwise.  *)
(* No event is emitted for an accepted result or for the last tool.        *)
(***************************************************************************)
C24_OneEventPerRejectedNonLastTool ==
    LET emitters == { k \in DOMAIN invoked :
                        RejectedAt(k) /\ k < Len(available_tools) }
    IN  /\ Len(EventsOfCall) = Cardinality(emitters)
        /\ \A k \in emitters :
             /\ k <= Len(EventsOfCall)
             /\ EventsOfCall[k].from = invoked[k].tool
             /\ EventsOfCall[k].from = available_tools[k].name
             /\ EventsOfCall[k].to = available_tools[k + 1].name
             /\ EventsOfCall[k].reason =
                  IF invoked[k].result.error # NoError
                  THEN invoked[k].result.error
                  ELSE "Low confidence or invalid result"

\* a walk over two tools has returned: the first tool's result carried an
\* error, the second (last) tool's result was a low-confidence Success
C24_Witness ==
    /\ pc = "idle"
    /\ Len(invoked) = 2
    /\ invoked[1].kind = "result"
    /\ invoked[1].result.status = TIMEOUT
    /\ invoked[2].kind = "result"
    /\ invoked[2].result.status = SUCCESS
    /\ RejectedAt(2)
    /\ Len(EventsOfCall) = 1
    /\ EventsOfCall[1].reason = TimeoutError

\* every timestamp of the window is less than d seconds older than the
\* last is_allowed call, and there are at most limit of them
FreshAndWithin(window, d, limit) ==
    /\ \A k \in DOMAIN window : rl_result.at - window[k] < d
    /\ Len(window) <= limit

(***************************************************************************)
(* C25. After every is_allowed(C) call each of C's three windows holds     *)
(* only timestamps younger than its duration (10 s, 60 s, 3600 s) at the   *)
(* time of the call, and at most as many as its limit: the purge precedes  *)
(* the comparison of the lengths with the limits.                          *)
(***************************************************************************)
C25_WindowsPurgedAndWithinLimit ==
    \A c \in Clients :
        rl_result.client = c =>
            /\ FreshAndWithin(burst_requests[c], 10, config.burst_limit)
            /\ FreshAndWithin(requests_per_minute[c], 60,
                              config.max_requests_per_minute)
            /\ FreshAndWithin(requests_per_hour[c], 3600,
                              config.max_requests_per_hour)

\* per-minute limit 1: the client was admitted at 0 and again at 60, the
\* second call found the minute window full of a stale entry and purged it
\* before comparing
C25_Witness ==
    /\ rl_result.client = "c1"
    /\ rl_result.allowed
    /\ rl_result.at = 60
    /\ config.max_requests_per_minute = 1
    /\ admitted["c1"] = <<0, 60>>
    /\ requests_per_minute["c1"] = <<60>>
    /\ requests_per_hour["c1"] = <<0, 60>>

\* the number of admissions of client c in the interval (t - d, t]
AdmittedWithin(c, t, d) ==
    Cardinality({ k \in DOMAIN admitted[c] :
                    t - d < admitted[c][k] /\ admitted[c][k] <= t })

\* the instants at which the number of admissions in a sliding interval
\* can change: an admission enters at its own time and is inside for the
\* last time one second before it is as old as the interval is long
Instants(c) ==
    { admitted[c][k] + e : k \in DOMAIN admitted[c], e \in {0, 9, 59, 3599} }
    \cup {now}

(***************************************************************************)
(* C26. Sliding-window safety under a non-decreasing clock: for every      *)
(* client and every instant t the client's admissions in (t - 60 s, t] are *)
(* at most max_requests_per_minute, those in (t - 3600 s, t] at most       *)
(* max_requests_per_hour and those in (t - 10 s, t] at most burst_limit.   *)
(***************************************************************************)
C26_SlidingWindowSafety ==
    \A c \in Clients : \A t \in Instants(c) :
        /\ AdmittedWithin(c, t, 60) <= config.max_requests_per_minute
        /\ AdmittedWithin(c, t, 3600) <= config.max_requests_per_hour
        /\ AdmittedWithin(c, t, 10) <= config.burst_limit

\* per-minute limit 2: admitted at 5 and at 60, and a further call at 60
\* rejected for the minute limit, the interval (0, 60] being full
C26_Witness ==
    /\ rl_result.client = "c1"
    /\ rl_result.at = 60
    /\ rl_result.reason = "minute"
    /\ config.max_requests_per_minute = 2
    /\ admitted["c1"] = <<5, 60>>
    /\ AdmittedWithin("c1", 60, 60) = 2

(***************************************************************************)
(* C27. In every state another request can observe, the ActiveRequest      *)
(* records are exactly the requests holding a concurrency slot (created    *)
(* right after the acquisition, removed when the request finishes, also by *)
(* a failure, an exception or a cancellation): there are never more        *)
(* records than the capacity, and free slots plus records, the             *)
(* max_concurrent of get_system_stats, equal the configured capacity.      *)
(***************************************************************************)
C27_RecordsAreTheSlotHolders ==
    /\ active_requests = Holders
    /\ \A r \in Requests :
         g_pc[r] = "done" /\ g_invocations[r] > 0 => r \notin active_requests
    /\ Cardinality(active_requests) <= max_concurrent_requests
    /\ semaphore + Cardinality(active_requests) = max_concurrent_requests

(***************************************************************************)
(* C28. When Redis cannot be reached the Redis backend does not raise: get *)
(* returns absent, set returns false, invalidate returns 0 and stats       *)
(* reports a status other than active.  It does not stay disabled: a call  *)
(* made while Redis can be reached connects (again) and is served.         *)
(***************************************************************************)
C28_OutageNeverRaisesAndRecovers ==
    [][(c_ops' = c_ops + 1 /\ cache_backend = "redis")
       => /\ ~c_ret'.raised
          /\ ~redis_up =>
               /\ c_ret'.got = <<>>
               /\ ~c_ret'.ok
               /\ c_ret'.deleted = 0
               /\ c_ret'.op = "stats" => c_ret'.status \in {"disabled", "error"}
               /\ redis_store' = redis_store
          /\ redis_up =>
               /\ redis_client'
               /\ c_ret'.op = "set" => c_ret'.ok
               /\ c_ret'.op = "stats" => c_ret'.status = "active"
               /\ (c_ret'.op = "get"
                     /\ RedisKey(c_ret'.query) \in DOMAIN RedisLive(redis_store, now))
                    => c_ret'.got # <<>>]_vars

\* a get during an outage: the key is on the server and has not expired,
\* the client exists, the get returned absent without raising
C28_Witness ==
    /\ cache_backend = "redis"
    /\ ~redis_up
    /\ redis_client
    /\ c_ret.op = "get"
    /\ c_ret.at = now
    /\ RedisKey(c_ret.query) \in DOMAIN RedisLive(redis_store, now)
    /\ c_ret.got = <<>>
    /\ ~c_ret.raised

\* the last-access time the index holds for a key (a set: empty when the
\* key is not in the index)
AccessTimeOf(times, key) ==
    { times[k].time : k \in { j \in DOMAIN times : times[j].key = key } }

\* the step is a call of op on the in-memory backend
MemoryCall(op) ==
    /\ c_ops' = c_ops + 1
    /\ cache_backend = "memory"
    /\ c_ret'.op = op

(***************************************************************************)
(* C29. In-memory backend: a get of an entry older than its ttl (now -     *)
(* stored_at > ttl) returns absent and removes the entry from the store    *)
(* and from the access-time index, so the key count drops by one and the   *)
(* key stays absent until it is set again; a get of an entry not older     *)
(* than its ttl returns its payload and sets its last-access time to now.  *)
(***************************************************************************)
C29_ExpiredEntryRemovedOnGet ==
    [][/\ MemoryCall("get") =>
            LET key == _generate_cache_key(c_ret'.query) IN
            IF key \notin DOMAIN cache
            THEN /\ c_ret'.got = <<>>
                 /\ cache' = cache
                 /\ access_times' = access_times
            ELSE IF now - cache[key].cached_at > cache[key].ttl
            THEN /\ c_ret'.got = <<>>
                 /\ DOMAIN cache' = DOMAIN cache \ {key}
                 /\ Cardinality(DOMAIN cache') = Cardinality(DOMAIN cache) - 1
                 /\ \A o \in DOMAIN cache' : cache'[o] = cache[o]
                 /\ AccessTimeOf(access_times', key) = {}
                 /\ \A o \in DOMAIN cache' :
                      AccessTimeOf(access_times', o) = AccessTimeOf(access_times, o)
            ELSE /\ c_ret'.got = <<cache[key].result>>
                 /\ cache' = cache
                 /\ AccessTimeOf(access_times', key) = {now}
                 /\ \A o \in DOMAIN cache \ {key} :
                      AccessTimeOf(access_times', o) = AccessTimeOf(access_times, o)
       /\ (cache_backend = "memory" /\ DOMAIN cache' \ DOMAIN cache # {})
            => MemoryCall("set")]_vars

\* an entry read exactly ttl seconds after it was stored, and later than
\* it was stored: it is returned and its last-access time is now
C29_Witness ==
    /\ cache_backend = "memory"
    /\ c_ret.op = "get"
    /\ c_ret.at = now
    /\ c_ret.got # <<>>
    /\ LET key == _generate_cache_key(c_ret.query) IN
         /\ key \in DOMAIN cache
         /\ now - cache[key].cached_at = cache[key].ttl
         /\ AccessTimeOf(access_times, key) = {now}

(***************************************************************************)
(* C30. After every cache_result on the in-memory backend the store holds  *)
(* at most max_size entries and the store and the access-time index have   *)
(* the same keys; an insertion beyond the capacity evicts as many entries  *)
(* as exceed it, those with the oldest last-access times: no evicted entry *)
(* was accessed later than an entry that is kept.                          *)
(***************************************************************************)
C30_BoundedAndLeastRecentlyUsedEvicted ==
    [][MemoryCall("set") =>
         LET key == _generate_cache_key(c_ret'.query)
             before == DOMAIN cache \cup {key}
             evicted == before \ DOMAIN cache'
             excess == Cardinality(before) - max_size
             LastAccess(k) == IF k = key THEN now
                              ELSE CHOOSE t \in AccessTimeOf(access_times, k) : TRUE
         IN  /\ Cardinality(DOMAIN cache') <= max_size
             /\ DOMAIN cache' = { access_times'[j].key : j \in DOMAIN access_times' }
             /\ Len(access_times') = Cardinality(DOMAIN cache')
             /\ DOMAIN cache' \subseteq before
             /\ Cardinality(evicted) = IF excess > 0 THEN excess ELSE 0
             /\ \A e \in evicted, k \in DOMAIN cache' :
                  LastAccess(e) <= LastAccess(k)]_vars

\* capacity 2 and four calls: the entry stored first was read after the
\* second entry was stored, and a third key was then inserted; the entry
\* read last was kept
C30_Witness ==
    /\ max_size = 2
    /\ c_ops = 4
    /\ c_ret.op = "set"
    /\ c_ret.query = "news"
    /\ DOMAIN cache = {_generate_cache_key("python"), _generate_cache_key("news")}
    /\ cache[_generate_cache_key("python")].cached_at = 0
    /\ AccessTimeOf(access_times, _generate_cache_key("python")) = {60}
    /\ cache[_generate_cache_key("news")].cached_at = 60

\* the characters of a query
QueryChars(q) ==
    IF q = "python" THEN <<"p", "y", "t", "h", "o", "n">>
    ELSE IF q = "weather" THEN <<"w", "e", "a", "t", "h", "e", "r">>
    ELSE <<"n", "e", "w", "s">>

\* the pattern matches the original query of an entry (no pattern: every
\* entry)
QueryMatches(q, pattern) ==
    pattern = NoPattern \/ Contains(QueryChars(q), pattern)

(***************************************************************************)
(* C31. invalidate(pattern), served by a reachable Redis, deletes exactly  *)
(* the entries whose original query matches the pattern and returns their  *)
(* number, the other entries staying as they are; without a pattern it     *)
(* deletes every entry and returns the total count.                        *)
(***************************************************************************)
C31_InvalidateByQueryPattern ==
    [][(/\ c_ops' = c_ops + 1
        /\ c_ret'.op = "invalidate"
        /\ cache_backend = "redis"
        /\ redis_up)
       => LET live == RedisLive(redis_store, now)
              matching == { k \in DOMAIN live :
                              QueryMatches(live[k].value.query, c_ret'.pattern) }
          IN  /\ c_ret'.deleted = Cardinality(matching)
              /\ DOMAIN redis_store' = DOMAIN live \ matching
              /\ \A k \in DOMAIN redis_store' : redis_store'[k] = live[k]]_vars

(***************************************************************************)
(* SpecClean: the production orchestrator of SpecGate under a clock that   *)
(* advances between the steps of its requests, so that a compaction of the *)
(* ledger falls due while the ledger is above its maximum.                 *)
(***************************************************************************)

\* time.time() advances by the compaction interval
CleanTick ==
    /\ ticks < MaxTicks
    /\ now' = now + cleanup_interval_seconds
    /\ ticks' = ticks + 1
    /\ UNCHANGED <<config, requests_per_minute, requests_per_hour,
                   burst_requests, rl_result, admitted, rl_calls,
                   engine_vars, val_vars, prod_vars>>

\* a request of admissible size arrives from a client within its limits
CleanArrive ==
    /\ request_counter < MaxRequests
    /\ Len(execution_history) + Pending(Requests)
         + Len(get_available_tools(tools)) <= MaxLedger
    /\ \E data \in { d \in RequestData : validate_request_size(d) } :
          Arrive("c1", data)
    /\ UNCHANGED <<cache_vars, front_vars>>

InitClean ==
    /\ tools = ProductionRegistry
    /\ EngineInit
    /\ ValIdle
    /\ now \in {0, 1}
    /\ config = RateLimitConfig(MaxRequests, MaxRequests, MaxRequests)
    /\ requests_per_minute = [c \in Clients |-> <<>>]
    /\ requests_per_hour = [c \in Clients |-> <<>>]
    /\ burst_requests = [c \in Clients |-> <<>>]
    /\ rl_result = NoRateResult
    /\ admitted = [c \in Clients |-> <<>>]
    /\ rl_calls = 0
    /\ ticks = 0
    /\ max_concurrent_requests = 1
    /\ semaphore = max_concurrent_requests
    /\ memory_config \in [max_execution_history : HistoryLimits]
    /\ active_requests = {}
    /\ request_counter = 0
    /\ last_cleanup = 0
    /\ g_pc = [r \in Requests |-> "new"]
    /\ g_client = [r \in Requests |-> "none"]
    /\ g_i = [r \in Requests |-> 0]
    /\ g_response = [r \in Requests |-> "none"]
    /\ g_check = [r \in Requests |-> NoCheck]
    /\ g_invocations = [r \in Requests |-> 0]
    /\ CacheIdle
    /\ FrontIdle

NextClean ==
    \/ CleanArrive
    \/ GateAcquire
    \/ GateToolReturns
    \/ GateToolRaises
    \/ CleanTick

SpecClean == InitClean /\ [][NextClean]_vars

\* the last n entries of a ledger, all of them when it has no more than n
Newest(history, n) ==
    IF Len(history) <= n THEN history
    ELSE [k \in 1..n |-> history[Len(history) - n + k]]

\* the ledgers request r can have left at the end of its walk: the ledger
\* of the state (its last invocation raised), or that ledger with the entry
\* of its last invocation
LedgersAtEnd(r) ==
    LET name == get_available_tools(tools)[g_i[r]].name IN
    {execution_history}
      \cup { RecordExecution(execution_history, name, r, result) :
               result \in ExecuteResults(name) }

(***************************************************************************)
(* C32. Ledger compaction is time-based: a step compacts (it sets the time *)
(* of the last compaction, or takes entries out of the ledger) only at the *)
(* end of an admitted request and only when more than                      *)
(* cleanup_interval_seconds have elapsed since the last compaction; right  *)
(* after it the ledger holds at most max_execution_history entries, the    *)
(* most recent ones in their order, and a ledger within the maximum is     *)
(* left as it was.                                                         *)
(***************************************************************************)
C32_CompactionTimeBased ==
    [][(\/ last_cleanup' # last_cleanup
        \/ Len(execution_history') < Len(execution_history)
        \/ SubSeq(execution_history', 1, Len(execution_history))
             # execution_history)
       => /\ now - last_cleanup > cleanup_interval_seconds
          /\ last_cleanup' = now
          /\ Len(execution_history') <= memory_config.max_execution_history
          /\ \E r \in Requests :
               /\ g_pc[r] = "await"
               /\ g_pc'[r] = "done"
               /\ g_response'[r] \in {"success", "failed"}
               /\ \E h \in LedgersAtEnd(r) :
                     execution_history'
                       = Newest(h, memory_config.max_execution_history)]_vars

\* a compaction has taken entries out: every successful request left one
\* entry, and fewer are in the ledger
C32_Witness ==
    /\ last_cleanup > 0
    /\ Len(execution_history) = memory_config.max_execution_history
    /\ Cardinality({ r \in Requests : g_response[r] = "success" })
         > Len(execution_history)

(***************************************************************************)
(* SpecConf: _calculate_confidence of the two tools.  The scores of the    *)
(* results are multiples of 0.1 and a confidence over n > 0 results is     *)
(* held exactly, as a multiple of 1 / (500 * n); floating-point rounding   *)
(* is left out.                                                            *)
(***************************************************************************)

\* r.get("score", 0.0) of a result, in tenths
Scores == {0, 5, 10}

RECURSIVE SumScores(_)
SumScores(scores) ==
    IF scores = <<>> THEN 0
    ELSE scores[1] + SumScores(Tail(scores))

Smaller(a, b) == IF a <= b THEN a ELSE b

\* the confidence 1.0 over n results
One(n) == 500 * n

\* num_factor + score_factor + answer_factor, as a multiple of 1 / (50 * n)
Factors(results) ==
    LET n == Len(results.scores) IN
    4 * n * Smaller(n, 5)
      + 2 * SumScores(results.scores)
      + (IF results.answer THEN 10 * n ELSE 0)

tavily_calculate_confidence(results) ==
    IF results.scores = <<>> THEN 0
    ELSE Smaller(10 * Factors(results), One(Len(results.scores)))

\* the same sum times 0.9
jina_calculate_confidence(results) ==
    IF results.scores = <<>> THEN 0
    ELSE Smaller(9 * Factors(results), One(Len(results.scores)))

\* the results dicts: the scores of the result list and whether
\* results.get("answer") is truthy
ConfInputs ==
    { [scores |-> sc, answer |-> a] :
        sc \in UNION { [1..n -> Scores] : n \in 0..MaxResults },
        a \in BOOLEAN }

TavilyCalculateConfidence ==
    /\ ~conf_out.done
    /\ conf_out' = [done |-> TRUE, tool |-> "tavily",
                    confidence |-> tavily_calculate_confidence(conf_in)]
    /\ UNCHANGED <<conf_in, val_in, val_out, engine_vars, rate_vars, prod_vars>>

JinaCalculateConfidence ==
    /\ ~conf_out.done
    /\ conf_out' = [done |-> TRUE, tool |-> "jina",
                    confidence |-> jina_calculate_confidence(conf_in)]
    /\ UNCHANGED <<conf_in, val_in, val_out, engine_vars, rate_vars, prod_vars>>

InitConf ==
    /\ tools = <<>>
    /\ EngineInit
    /\ val_in = [result |-> NoResult, min_conf |-> 0]
    /\ val_out = [done |-> FALSE, accepted |-> FALSE]
    /\ conf_in \in ConfInputs
    /\ conf_out = [done |-> FALSE, tool |-> "none", confidence |-> 0]
    /\ RateIdle
    /\ GateIdle
    /\ CacheIdle
    /\ FrontIdle

NextConf ==
    \/ TavilyCalculateConfidence
    \/ JinaCalculateConfidence

SpecConf == InitConf /\ [][NextConf]_vars

(***************************************************************************)
(* C33. The confidence is evaluated identically whichever tool produced    *)
(* the result: for n results with average score avg and an answer present  *)
(* or not, every tool yields                                               *)
(* 0.4 * min(n / 5, 1) + 0.4 * avg + 0.2 * (1 if answer else 0), capped at *)
(* 1; the confidence is within [0, 1] and is 0 when there are no results.  *)
(***************************************************************************)
C33_ConfidenceSameForEveryTool ==
    conf_out.done =>
        LET n == Len(conf_in.scores)
            \* the claimed sum, as a multiple of 1 / (500 * n)
            claimed == 40 * n * Smaller(n, 5)
                         + 20 * SumScores(conf_in.scores)
                         + (IF conf_in.answer THEN 100 * n ELSE 0)
        IN  /\ n = 0 => conf_out.confidence = 0
            /\ n > 0 => /\ conf_out.confidence = Smaller(claimed, One(n))
                        /\ conf_out.confidence >= 0
                        /\ conf_out.confidence <= One(n)

\* the success flag of the responses of the production process_request
ResponseSuccess(kind) == kind = "success"

(***************************************************************************)
(* C34. The production process_request never raises for a failure of a     *)
(* provider or of internal processing: an exception raised while the slot  *)
(* is held ends the request with a returned response whose success flag is *)
(* false ("failed" after the providers, "internal_error" from the except   *)
(* clause), with its ActiveRequest record removed and its slot released    *)
(* (free again, or handed to the first waiter).                            *)
(***************************************************************************)
C34_ExceptionBecomesFailureResponse ==
    [][\A r \in Requests :
         (/\ g_pc[r] = "await"
          /\ g_pc'[r] # "await"
          /\ g_response'[r] # "cancelled")
         => /\ g_pc'[r] = "done"
            /\ g_response'[r] \in {"success", "failed", "internal_error"}
            /\ (execution_history' = execution_history
                  => ~ResponseSuccess(g_response'[r]))
            /\ r \in active_requests
            /\ r \notin active_requests'
            /\ r \notin Holders'
            /\ semaphore' + Cardinality(Holders')
                 = max_concurrent_requests
            /\ \/ semaphore' = semaphore + 1 /\ Waiting = {}
               \/ /\ semaphore' = semaphore
                  /\ Waiting # {}
                  /\ g_pc'[FirstWaiting] = "woken"]_vars

\* one request has ended in the except clause and one with every provider
\* failed by an exception (no ledger entry); no record and no slot is held
C34_Witness ==
    /\ \E a, b \in Requests :
         /\ g_response[a] = "internal_error"
         /\ g_response[b] = "failed"
         /\ \A k \in DOMAIN execution_history : execution_history[k].query # b
    /\ active_requests = {}
    /\ semaphore = max_concurrent_requests

\* the keys under which the cache manager in use holds an entry, and the
\* entry of a key
CacheKeys(redis, memory) ==
    IF cache_backend = "redis"
    THEN { SubSeq(k, Len(cache_prefix) + 1, Len(k)) : k \in DOMAIN redis }
    ELSE DOMAIN memory

CacheEntry(redis, memory, key) ==
    IF cache_backend = "redis" THEN redis[cache_prefix \o key] ELSE memory[key]

(***************************************************************************)
(* C35. A cache entry is created or overwritten only from a response whose *)
(* success flag is true: a step of a front end that creates or changes an  *)
(* entry is the end of a search with use_cache whose response is a         *)
(* success, the entry is the one of its query, and rate-limited,           *)
(* oversized, internally failed and all-tools-failed responses leave the   *)
(* cache as it was.                                                        *)
(***************************************************************************)
C35_OnlySuccessesAreCached ==
    [][LET before == CacheKeys(redis_store, cache)
           after  == CacheKeys(redis_store', cache')
           written == { k \in after :
                          \/ k \notin before
                          \/ CacheEntry(redis_store', cache', k)
                               # CacheEntry(redis_store, cache, k) }
           kind == g_response[f_gate[f_count]]
       IN  /\ written # {}
             => /\ f_pc = "engine"
                /\ f_pc' = "idle"
                /\ f_use_cache[f_count]
                /\ ResponseSuccess(kind)
                /\ written = {_generate_cache_key(f_query[f_count])}
           /\ (/\ f_pc = "engine"
               /\ f_pc' = "idle"
               /\ kind \in {"rate_limited", "too_large", "internal_error",
                            "failed"})
             => /\ redis_store' = redis_store
                /\ cache' = cache]_vars

\* a search with use_cache has ended with a failure and left no entry, and
\* a search with use_cache has ended with a success and left one
C35_Witness ==
    /\ f_pc = "idle"
    /\ \E a, b \in Requests :
         /\ f_use_cache[a] /\ f_use_cache[b]
         /\ f_gate[a] # 0 /\ f_gate[b] # 0
         /\ g_response[f_gate[a]] \in {"rate_limited", "too_large",
                                       "internal_error", "failed"}
         /\ _generate_cache_key(f_query[a]) \notin CacheKeys(redis_store, cache)
         /\ g_response[f_gate[b]] = "success"
         /\ _generate_cache_key(f_query[b]) \in CacheKeys(redis_store, cache)

(***************************************************************************)
(* SpecWait: the fallback walk under a clock.  execute_tool awaits         *)
(* tool.execute without a deadline of its own, and the timeout of the      *)
(* tools is the one of each httpx operation, not of the invocation (Jina   *)
(* makes several requests per invocation), so time passes freely while an  *)
(* invocation is pending.                                                  *)
(***************************************************************************)

\* the amounts by which time.time() advances while tool.execute is awaited
WaitJumps == {timeout, 1}

WaitTick ==
    /\ pc = "await"
    /\ ticks < MaxTicks
    /\ \E d \in WaitJumps : now' = now + d
    /\ ticks' = ticks + 1
    /\ UNCHANGED <<config, requests_per_minute, requests_per_hour,
                   burst_requests, rl_result, admitted, rl_calls,
                   engine_vars, val_vars, prod_vars>>

NextWait ==
    \/ ProcessRequest
    \/ ToolReturns
    \/ ToolRaises
    \/ ToolCancelled
    \/ WaitTick

SpecWait == Init /\ [][NextWait]_vars

(***************************************************************************)
(* C36. Every execute_with_fallback call terminates: an invocation that    *)
(* has not answered within the configured timeout is ended (with status    *)
(* Timeout) by a deadline of the engine, so no invocation is pending for   *)
(* longer than the timeout; and the call makes at most one invocation per  *)
(* available tool.                                                         *)
(***************************************************************************)
C36_InvocationsEndAtTheDeadline ==
    /\ pc = "await" => now - start_time <= timeout
    /\ Len(invoked) <= Len(available_tools)

(***************************************************************************)
(* C37. fallback_count is incremented for a request only if that request   *)
(* itself fell back, i.e. its own walk invoked more than one tool before a *)
(* result was returned, and it is incremented for every successful request *)
(* that did; fallback_count <= success_count <= request_count.             *)
(***************************************************************************)
C37_FallbackCountIsPerRequest ==
    [][/\ fallback_count' # fallback_count
         => /\ fallback_count' = fallback_count + 1
            /\ is_success(returned')
            /\ Len(invoked') > 1
       /\ (pc = "await" /\ pc' = "idle" /\ is_success(returned')
             /\ Len(invoked') > 1)
         => fallback_count' = fallback_count + 1
       /\ fallback_count' <= success_count'
       /\ success_count' <= request_count']_vars

(***************************************************************************)
(* C38. The execution_log returned in a response contains only ledger      *)
(* entries created by the tool invocations of that request: every entry    *)
(* carries the query of the request, never the query of another request.   *)
(***************************************************************************)
C38_ExecutionLogIsOwn ==
    (pc = "idle" /\ response # NoResponse)
      => \A k \in DOMAIN response.execution_log :
            response.execution_log[k].query = query

\* the requests of client c that passed the rate-limit check
PassedRateLimit(c) ==
    { r \in Requests : g_client[r] = c /\ g_check[r].allowed }

(***************************************************************************)
(* C39. The rate-limit check runs before the size validation: a request    *)
(* rejected as too large passed the rate limiter and was recorded in the   *)
(* burst, minute and hour windows of its client, so it counts against the  *)
(* later admission checks of that client, although it took no slot and     *)
(* called no provider.  (No time passes in SpecGate, so every recorded     *)
(* request is still in the windows.)                                       *)
(***************************************************************************)
C39_OversizedRequestIsRecorded ==
    /\ \A r \in Requests :
         g_response[r] = "too_large"
         => /\ g_check[r].allowed
            /\ ~g_check[r].valid
            /\ r \in PassedRateLimit(g_client[r])
            /\ now \in { burst_requests[g_client[r]][k] :
                           k \in DOMAIN burst_requests[g_client[r]] }
            /\ g_invocations[r] = 0
            /\ r \notin active_requests
            /\ r \notin Holders
    /\ \A c \in Clients :
         /\ Len(burst_requests[c]) = Cardinality(PassedRateLimit(c))
         /\ Len(requests_per_minute[c]) = Cardinality(PassedRateLimit(c))
         /\ Len(requests_per_hour[c]) = Cardinality(PassedRateLimit(c))
         /\ Cardinality(PassedRateLimit(c)) <= config.burst_limit

\* a client's only earlier request was rejected as too large, and its next
\* request is rejected by the rate limiter
C39_Witness ==
    \E a, b \in Requests :
        /\ a < b
        /\ g_client[a] = g_client[b]
        /\ g_response[a] = "too_large"
        /\ g_response[b] = "rate_limited"
        /\ PassedRateLimit(g_client[a]) = {a}

====
